---------------------------- MODULE Spec2Model ----------------------------
(***************************************************************************)
(* Model of the resilient marketplace API client of service-marketplace:   *)
(* the structured error taxonomy (internal/domain/shopee/retry.go, errors  *)
(* section), the retry policy and executor (retry.go), the token-bucket    *)
(* rate limiter (ratelimit.go) and the Client orchestrator                 *)
(* (internal/providers/shopee/returns.go, client section).                 *)
(*                                                                         *)
(* Units.  Durations of the retry policy are whole milliseconds.  The      *)
(* clock of the rate limiter advances in ticks of 1/TicksPerSecond second  *)
(* and a bucket balance is kept in units of 1/TicksPerSecond token, so     *)
(* that elapsed * refillRate is exact; the wait returned by take() is in   *)
(* nanoseconds, truncated as time.Duration(float) truncates.               *)
(* Strings the code searches in (messages, paths) are sequences of         *)
(* one-character strings.                                                  *)
(***************************************************************************)
EXTENDS Integers, Sequences, FiniteSets, TLC

VARIABLES
    \* ---- pure-function harness (error taxonomy, RetryPolicy.ShouldRetry)
    errIn,          \* the error handed to the classifier
    attemptIn,      \* the attempt number handed to ShouldRetry
    policyIn,       \* the policy ShouldRetry is called on
    retryableOut,   \* APIError.IsRetryable() of errIn (FALSE when not an APIError)
    categoryOut,    \* APIError.Category() of errIn ("" when not an APIError)
    shouldRetryOut, \* policyIn.ShouldRetry(errIn, attemptIn)
    evaluated,      \* TRUE once the functions have been applied
    drawIn,         \* the value of rand.Float64()*2 - 1 in DelayForAttempt (tenths)
    delayOut,       \* attempt -> policyIn.DelayForAttempt(attempt)
    respIn,         \* the HTTP outcome handed to the classification of doRequest
    errOut,         \* the error doRequest returns for respIn
    policyHeap,     \* address -> the RetryPolicy object at that address
    executor,       \* the Executor built by NewExecutor: the address it holds
                    \* and the policy as it was at construction
    derived,        \* the address the last With* call returned (0: none)
    sigIn,          \* the arguments handed to the Signature functions
    sigOut,         \* what the Signature functions returned
    tm,             \* the TokenManager (order_sync_service.go) and its goroutines
    job,            \* the sync job of PushProducts and what its processing met
    \* ---- rate limiter (ratelimit.go)
    now,            \* the clock, in ticks
    buckets,        \* RateLimiter.buckets: bucket key -> tokenBucket
    ret,            \* what the last limiter call returned: the wait of take()
                    \* (with the bucket key), or the map of GetStatus()
    waiter,         \* per caller of RateLimiter.Wait: where the call stands
    made,           \* bucket key -> number of buckets stored in the map for it
    getter,         \* per goroutine inside getBucket: where the call stands
    reader,         \* the goroutine inside GetStatus: where the call stands
    \* ---- Client (returns.go, client section) and Executor (retry.go)
    retryPolicy,    \* Client.retryPolicy
    tokenRefresher, \* Client.tokenRefresher is configured (non-nil)
    accessToken,    \* Client.accessToken
    refreshToken,   \* Client.refreshToken ("" when none)
    shopID,         \* Client.shopID
    tokenExpiry,    \* Client.tokenExpiry, in ticks
    pc,             \* per caller: where its Do call stands
    req,            \* per caller: the Request of the call
    ctxDone,        \* per caller: the context of the call is cancelled
    attempt,        \* per caller: the loop variable of Execute
    result,         \* per caller: the RetryResult of Execute
    err,            \* per caller: err of the closure, returned by doRequest
    snap,           \* per caller: (accessToken, shopID) read by doRequest
    refreshIn,      \* per caller: (refreshToken, shopID) read by tryRefreshToken
    delay,          \* per caller: the delay WaitForRetry is waiting for (ms)
    retErr,         \* per caller: the error Do returned
    obs             \* per caller: what an observer of the call has counted

varsErr == <<errIn, attemptIn, policyIn, retryableOut, categoryOut,
             shouldRetryOut, evaluated, drawIn, delayOut, respIn, errOut,
             policyHeap, executor, derived, sigIn, sigOut, tm, job>>

varsRL == <<now, buckets, ret, waiter, made, getter, reader>>

varsClient == <<retryPolicy, tokenRefresher, accessToken, refreshToken, shopID,
                tokenExpiry, pc, req, ctxDone, attempt, result, err, snap,
                refreshIn, delay, retErr, obs>>

vars == <<varsErr, varsRL, varsClient>>

-----------------------------------------------------------------------------
(* Bounds *)

\* clock ticks per second, and balance units per token
TicksPerSecond == 2

\* the clock stops advancing at MaxTime ticks
MaxTime == 3

\* take() calls made on the limiter
MaxTakes == 4

\* largest maxAttempts a policy of the model carries
MaxAttemptsBound == 3

\* successful Start calls on one TokenManager
MaxStarts == 2

\* products in the catalog's answer to one push job
MaxProducts == 2

-----------------------------------------------------------------------------
(* Strings as character sequences *)

MsgAccessTokenInvalid ==
    <<"a","c","c","e","s","s","_","t","o","k","e","n"," ",
      "i","n","v","a","l","i","d">>
MsgTokenExpired ==
    <<"t","o","k","e","n"," ","e","x","p","i","r","e","d">>
MsgInvalidToken ==
    <<"i","n","v","a","l","i","d"," ","t","o","k","e","n">>
MsgPermission ==
    <<"n","o"," ","p","e","r","m","i","s","s","i","o","n">>
MsgEmpty == <<>>
\* "token refreshed, retrying" (returns.go:496)
MsgTokenRefreshed ==
    <<"t","o","k","e","n"," ","r","e","f","r","e","s","h","e","d",","," ",
      "r","e","t","r","y","i","n","g">>
\* fmt.Sprintf("HTTP error: %d", status) (returns.go:622); the digits of the
\* status are the last element
MsgHTTPError(statusCode) ==
    <<"H","T","T","P"," ","e","r","r","o","r",":"," ", ToString(statusCode)>>

-----------------------------------------------------------------------------
(* Error codes and categories (retry.go, errors section) *)

CodeAuthError        == "error_auth"
CodeInvalidSign      == "error_sign"
CodeInvalidTimestamp == "error_timestamp"
CodePermissionDenied == "error_permission"
CodeInvalidParam     == "error_param"
CodeExceedLimit      == "error_exceed_limit"
CodeServerError      == "error_server"
CodeNotFound         == "error_not_found"
CodeProductBanned    == "error_product_banned"
CodeOrderCancelled   == "error_order_cancelled"

CategoryAuthentication == "authentication"
CategoryRateLimit      == "rate_limit"
CategoryServer         == "server"
CategoryNotFound       == "not_found"
CategoryValidation     == "validation"
CategoryUnknown        == "unknown"

StatusBadRequest         == 400
StatusUnauthorized       == 401
StatusTooManyRequests    == 429
StatusServiceUnavailable == 503

\* An error value.  kind: "nil" (no error), "api" (*APIError), "plain" (an
\* error built by fmt.Errorf / errors.New), "ctx" (ctx.Err()).
NilErr == [kind |-> "nil", code |-> "", msg |-> <<>>, reqid |-> "", status |-> 0]
CtxErr == [kind |-> "ctx", code |-> "", msg |-> <<>>, reqid |-> "", status |-> 0]
PlainErr(text) ==
    [kind |-> "plain", code |-> text, msg |-> <<>>, reqid |-> "", status |-> 0]

NewAPIErrorWithRequestID(code, message, statusCode, requestID) ==
    [kind |-> "api", code |-> code, msg |-> message, reqid |-> requestID,
     status |-> statusCode]

NewAPIError(code, message, statusCode) ==
    NewAPIErrorWithRequestID(code, message, statusCode, "")

ErrorCodeIsRetryableNoServer(c) == c = CodeExceedLimit

ErrorCodeIsRetryable(c) == c \in {CodeExceedLimit, CodeServerError}

APIErrorIsRetryable(e) ==
    \/ ErrorCodeIsRetryable(e.code)
    \/ e.status = StatusTooManyRequests
    \/ e.status = StatusServiceUnavailable
    \/ e.status >= 500

Category(e) ==
    CASE e.code \in {CodeAuthError, CodeInvalidSign, CodeInvalidTimestamp,
                     CodePermissionDenied}                 -> CategoryAuthentication
      [] e.code = CodeExceedLimit                          -> CategoryRateLimit
      [] e.code = CodeServerError                          -> CategoryServer
      [] e.code \in {CodeNotFound, CodeProductBanned,
                     CodeOrderCancelled}                   -> CategoryNotFound
      [] e.code = CodeInvalidParam                         -> CategoryValidation
      [] OTHER                                             -> CategoryUnknown

\* containsAny(s, substrs...): the nested scan of retry.go:338-349
ContainsAt(s, sub, i) ==
    \A j \in 1..Len(sub) : s[i + j - 1] = sub[j]

Contains(s, sub) ==
    /\ Len(s) >= Len(sub)
    /\ \E i \in 1..(Len(s) - Len(sub) + 1) : ContainsAt(s, sub, i)

containsAny(s, substrs) == \E sub \in substrs : Contains(s, sub)

TokenExpirySubstrings == {MsgTokenExpired, MsgInvalidToken, MsgAccessTokenInvalid}

isTokenExpired(e) ==
    IF e.code # CodeAuthError THEN FALSE
    ELSE containsAny(e.msg, TokenExpirySubstrings)

-----------------------------------------------------------------------------
(* RetryPolicy (retry.go:10-135) *)

\* multiplier is the rational num/den; jitterFactor is in tenths; delays in ms
DefaultRetryPolicy ==
    [maxAttempts |-> 3, initialDelay |-> 1000, maxDelay |-> 30000,
     multiplier |-> [num |-> 2, den |-> 1], jitterFactor |-> 1]

NoRetryPolicy ==
    [maxAttempts |-> 1, initialDelay |-> 0, maxDelay |-> 0,
     multiplier |-> [num |-> 0, den |-> 1], jitterFactor |-> 0]

WithMaxAttempts(p, n) == [p EXCEPT !.maxAttempts = n]

WithInitialDelay(p, d) == [p EXCEPT !.initialDelay = d]

WithMaxDelay(p, d) == [p EXCEPT !.maxDelay = d]

WithMultiplier(p, m) == [p EXCEPT !.multiplier = m]

WithJitter(p, j) == [p EXCEPT !.jitterFactor = j]

ShouldRetryAnyError(p, e, a) ==
    IF a >= p.maxAttempts THEN FALSE
    ELSE IF e.kind = "nil" THEN FALSE
    ELSE IF e.kind = "api" THEN APIErrorIsRetryable(e)
    ELSE TRUE

ShouldRetry(p, e, a) ==
    IF a >= p.maxAttempts THEN FALSE
    ELSE IF e.kind = "nil" THEN FALSE
    ELSE IF e.kind = "api" THEN APIErrorIsRetryable(e)
    ELSE FALSE

RECURSIVE Pow(_, _)
Pow(b, k) == IF k <= 0 THEN 1 ELSE b * Pow(b, k - 1)

\* the values rand.Float64()*2 - 1 is drawn from, in tenths
JitterDraws == {-10, 9}

\* DelayForAttempt as it would be without the cap
DelayForAttemptNoCap(p, a, u) ==
    IF a <= 0 THEN 0
    ELSE LET k == a - 1
         IN  (p.initialDelay * Pow(p.multiplier.num, k)
                 * (IF p.jitterFactor > 0 THEN 100 + p.jitterFactor * u ELSE 100))
             \div (Pow(p.multiplier.den, k) * 100)

\* DelayForAttempt as it would be with the cap applied before the jitter
DelayForAttemptCapFirst(p, a, u) ==
    IF a <= 0 THEN 0
    ELSE LET k    == a - 1
             num0 == p.initialDelay * Pow(p.multiplier.num, k)
             den0 == Pow(p.multiplier.den, k)
             over == num0 > p.maxDelay * den0
             num1 == IF over THEN p.maxDelay ELSE num0
             den1 == IF over THEN 1 ELSE den0
         IN  IF p.jitterFactor > 0
             THEN (num1 * (100 + p.jitterFactor * u)) \div (den1 * 100)
             ELSE num1 \div den1

\* DelayForAttempt with the random draw u (tenths) made explicit.
\* delay = initialDelay * multiplier^(attempt-1), then jitter, then the cap,
\* then truncation to a whole duration.
DelayForAttempt(p, a, u) ==
    IF a <= 0 THEN 0
    ELSE LET k    == a - 1
             num0 == p.initialDelay * Pow(p.multiplier.num, k)
             den0 == Pow(p.multiplier.den, k)
             num1 == IF p.jitterFactor > 0
                     THEN num0 * (100 + p.jitterFactor * u)
                     ELSE num0 * 100
             den1 == den0 * 100
         IN  IF num1 > p.maxDelay * den1 THEN p.maxDelay
             ELSE num1 \div den1

-----------------------------------------------------------------------------
(* Inputs of the pure-function harness *)

Codes == {"", CodeAuthError, CodeInvalidSign, CodeInvalidTimestamp,
          CodePermissionDenied, CodeInvalidParam, CodeExceedLimit,
          CodeServerError, CodeNotFound, CodeProductBanned,
          CodeOrderCancelled, "error_other"}

Statuses == {0, 200, StatusBadRequest, StatusUnauthorized, 403, 404,
             StatusTooManyRequests, 499, 500, 502, StatusServiceUnavailable}

Messages == {MsgEmpty, MsgAccessTokenInvalid, MsgPermission, MsgTokenRefreshed}

TextRequestFailed == "request failed"
TextReadFailed    == "failed to read response"
TextParseFailed   == "failed to parse response"
TextMarshalFailed == "failed to marshal request body"
TextCreateFailed  == "failed to create request"

ErrInputs ==
    {NilErr, CtxErr, PlainErr(TextRequestFailed), PlainErr(TextReadFailed)}
    \cup {NewAPIError(c, m, s) : c \in Codes, m \in Messages, s \in Statuses}

PolicyInputs ==
    {WithMaxAttempts(DefaultRetryPolicy, n) : n \in 0..MaxAttemptsBound}

AttemptInputs == 0..(MaxAttemptsBound + 1)

\* the parts of the harness that a specification does not use
ClassifyIdle ==
    /\ errIn = NilErr
    /\ attemptIn = 1
    /\ retryableOut = FALSE
    /\ categoryOut = ""
    /\ shouldRetryOut = FALSE

DelayIdle == drawIn = 0 /\ delayOut = <<>>

RespIdle == respIn = <<>> /\ errOut = NilErr

PolicyIdle == policyHeap = <<>> /\ executor = <<>> /\ derived = 0

SigIdle == sigIn = <<>> /\ sigOut = <<>>

TMIdle == tm = <<>>

JobIdle == job = <<>>

\* the harness before any input is drawn
InitErrIdle ==
    /\ ClassifyIdle
    /\ policyIn = DefaultRetryPolicy
    /\ evaluated = FALSE
    /\ DelayIdle /\ RespIdle /\ PolicyIdle /\ SigIdle /\ TMIdle /\ JobIdle

\* the harness with its inputs drawn
InitErr ==
    /\ errIn \in ErrInputs
    /\ attemptIn \in AttemptInputs
    /\ policyIn \in PolicyInputs
    /\ retryableOut = FALSE
    /\ categoryOut = ""
    /\ shouldRetryOut = FALSE
    /\ evaluated = FALSE
    /\ DelayIdle /\ RespIdle /\ PolicyIdle /\ SigIdle /\ TMIdle /\ JobIdle

\* Classify the error and ask the policy whether to retry it.
Classify ==
    /\ ~evaluated
    /\ retryableOut' = IF errIn.kind = "api" THEN APIErrorIsRetryable(errIn) ELSE FALSE
    /\ categoryOut' = IF errIn.kind = "api" THEN Category(errIn) ELSE ""
    /\ shouldRetryOut' = ShouldRetry(policyIn, errIn, attemptIn)
    /\ evaluated' = TRUE
    /\ UNCHANGED <<errIn, attemptIn, policyIn, drawIn, delayOut, respIn, errOut,
                   policyHeap, executor, derived, sigIn, sigOut, tm, job>>
    /\ UNCHANGED <<varsRL, varsClient>>

NextErr == Classify

\* Inputs of DelayForAttempt: policies over initial delays, caps, multipliers
\* (2, 1, 1.5, 0.5) and jitter factors (0, 0.1, 0.5), the attempts from -1
\* on, and draws of the random number
DelayPolicies ==
    {[maxAttempts |-> 3, initialDelay |-> i, maxDelay |-> m, multiplier |-> x,
      jitterFactor |-> j] :
        i \in {0, 1000, 1500}, m \in {0, 5000, 30000},
        x \in {[num |-> 2, den |-> 1], [num |-> 1, den |-> 1],
                [num |-> 3, den |-> 2], [num |-> 1, den |-> 2]},
        j \in {0, 1, 5}}

DelayAttempts == (-1)..(MaxAttemptsBound + 3)

DelayDraws == {-10, -5, 0, 5, 9}

InitDelay ==
    /\ ClassifyIdle
    /\ policyIn \in DelayPolicies
    /\ drawIn \in DelayDraws
    /\ delayOut = <<>>
    /\ evaluated = FALSE
    /\ RespIdle /\ PolicyIdle /\ SigIdle /\ TMIdle /\ JobIdle

\* DelayForAttempt applied to every attempt number
ComputeDelays ==
    /\ ~evaluated
    /\ delayOut' = [n \in DelayAttempts |-> DelayForAttempt(policyIn, n, drawIn)]
    /\ evaluated' = TRUE
    /\ UNCHANGED <<errIn, attemptIn, policyIn, retryableOut, categoryOut,
                   shouldRetryOut, drawIn, respIn, errOut, policyHeap, executor,
                   derived, sigIn, sigOut, tm, job>>
    /\ UNCHANGED <<varsRL, varsClient>>

NextDelay == ComputeDelays

-----------------------------------------------------------------------------
(* Signature (retry.go:391-434) and WebhookHandler.VerifyWebhook
   (webhook.go:92-114).  Strings are sequences of one-character strings.
   HMAC-SHA256 is taken as an ideal keyed function: two digests are equal
   exactly when key and data are equal.  A signature string is the digest
   together with the case of its hex digits; hex.EncodeToString writes lower
   case. *)

DecimalDigits == <<"0", "1", "2", "3", "4", "5", "6", "7", "8", "9">>

RECURSIVE DecimalNat(_)
DecimalNat(n) ==
    IF n < 10 THEN <<DecimalDigits[n + 1]>>
    ELSE DecimalNat(n \div 10) \o <<DecimalDigits[(n % 10) + 1]>>

\* the verb %d of fmt.Sprintf
Decimal(n) == IF n < 0 THEN <<"-">> \o DecimalNat(-n) ELSE DecimalNat(n)

sign(partnerKey, baseString) ==
    [key |-> partnerKey, data |-> baseString, hex |-> "lower"]

\* the empty string, where a signature string is expected
EmptySignature == [key |-> "", data |-> <<>>, hex |-> ""]

GeneratePublic(partnerKey, partnerID, path, timestamp) ==
    sign(partnerKey, Decimal(partnerID) \o path \o Decimal(timestamp))

\* GenerateAuthenticated as it would be without the token and the shop id
GenerateAuthenticatedAsPublic(partnerKey, partnerID, path, timestamp, token, shop) ==
    GeneratePublic(partnerKey, partnerID, path, timestamp)

GenerateAuthenticated(partnerKey, partnerID, path, timestamp, token, shop) ==
    sign(partnerKey,
         Decimal(partnerID) \o path \o Decimal(timestamp) \o token \o Decimal(shop))

\* Signature.VerifyWebhook as it would be if the hex digits were compared
\* without regard to case
VerifyWebhookAnyCase(partnerKey, baseURL, body, providedSignature) ==
    LET expectedSignature == sign(partnerKey, baseURL \o <<"|">> \o body)
    IN  /\ providedSignature.hex # ""
        /\ expectedSignature.key = providedSignature.key
        /\ expectedSignature.data = providedSignature.data

\* Signature.VerifyWebhook
VerifyWebhook(partnerKey, baseURL, body, providedSignature) ==
    LET expectedSignature == sign(partnerKey, baseURL \o <<"|">> \o body)
    IN  expectedSignature = providedSignature

\* the header WebhookHandler.VerifyWebhook reads the signature from
AuthorizationHeader(headers) ==
    IF headers.Authorization # EmptySignature THEN headers.Authorization
    ELSE headers.authorization

\* WebhookHandler.VerifyWebhook of a handler built with NewWebhookHandler(
\* partnerKey, webhookURL, logger); the error it returns is always nil
HandlerVerifyWebhook(partnerKey, webhookURL, body, headers) ==
    LET authorization == AuthorizationHeader(headers)
    IN  IF authorization = EmptySignature THEN FALSE
        ELSE VerifyWebhook(partnerKey, webhookURL, body, authorization)

\* Inputs.  A webhook case: a sender signs signedBody for signedURL with
\* signedKey, the signature string is passed on as it is, with its hex
\* digits in upper case, or replaced by the empty string, and it arrives
\* under the header name "Authorization", under "authorization", under the
\* latter with another signature under the former, or not at all; the
\* receiver verifies body for baseURL with key.
SigKeys == {"k1", "k2"}

SigURLs == {<<"u">>, <<"u", "|">>}

SigBodies == {<<>>, <<"b">>, <<"|", "b">>, <<"c">>, <<"b", "b">>}

WebhookCases ==
    [op : {"verify"}, key : SigKeys, baseURL : SigURLs, body : SigBodies,
     signedKey : SigKeys, signedURL : SigURLs, signedBody : SigBodies,
     sent : {"asis", "upper", "empty"},
     header : {"Authorization", "authorization", "second", "none"}]

\* the signature string of a webhook case as it reaches the receiver
ProvidedSignature(w) ==
    LET sig == sign(w.signedKey, w.signedURL \o <<"|">> \o w.signedBody)
    IN  CASE w.sent = "asis"  -> sig
          [] w.sent = "upper" -> [sig EXCEPT !.hex = "upper"]
          [] w.sent = "empty" -> EmptySignature

\* the headers of a webhook case
WebhookHeaders(w) ==
    CASE w.header = "Authorization" ->
            [Authorization |-> ProvidedSignature(w), authorization |-> EmptySignature]
      [] w.header = "authorization" ->
            [Authorization |-> EmptySignature, authorization |-> ProvidedSignature(w)]
      [] w.header = "second" ->
            [Authorization |-> sign("other", <<>>), authorization |-> ProvidedSignature(w)]
      [] w.header = "none" ->
            [Authorization |-> EmptySignature, authorization |-> EmptySignature]

\* A generation case: two argument lists of GenerateAuthenticated.  The
\* values are chosen so that different lists can give the same canonical
\* string (1 and "2/x" against 12 and "/x").
SigArgs ==
    [key : SigKeys, partnerID : {1, 12, -1}, path : {<<"/", "x">>, <<"2", "/", "x">>},
     timestamp : {3, 33}, token : {<<"a">>, <<"3", "a">>}, shop : {5, 45}]

GenerateCases == [op : {"generate"}, a : SigArgs, b : SigArgs]

InitSig ==
    /\ ClassifyIdle
    /\ policyIn = DefaultRetryPolicy
    /\ evaluated = FALSE
    /\ sigIn \in WebhookCases \cup GenerateCases
    /\ sigOut = <<>>
    /\ DelayIdle /\ RespIdle /\ PolicyIdle /\ TMIdle /\ JobIdle

\* the receiver verifies the webhook, directly and through the handler
VerifyWebhookCall ==
    /\ ~evaluated
    /\ sigIn.op = "verify"
    /\ sigOut' = [signature |-> VerifyWebhook(sigIn.key, sigIn.baseURL, sigIn.body,
                                              ProvidedSignature(sigIn)),
                  handler   |-> HandlerVerifyWebhook(sigIn.key, sigIn.baseURL, sigIn.body,
                                                     WebhookHeaders(sigIn))]
    /\ evaluated' = TRUE
    /\ UNCHANGED <<errIn, attemptIn, policyIn, retryableOut, categoryOut,
                   shouldRetryOut, drawIn, delayOut, respIn, errOut, policyHeap,
                   executor, derived, sigIn, tm, job>>
    /\ UNCHANGED <<varsRL, varsClient>>

\* GenerateAuthenticated called with the list a twice and with the list b
GenerateCall ==
    /\ ~evaluated
    /\ sigIn.op = "generate"
    /\ LET gen(x) == GenerateAuthenticated(x.key, x.partnerID, x.path, x.timestamp,
                                          x.token, x.shop)
       IN  sigOut' = [a |-> gen(sigIn.a), again |-> gen(sigIn.a), b |-> gen(sigIn.b)]
    /\ evaluated' = TRUE
    /\ UNCHANGED <<errIn, attemptIn, policyIn, retryableOut, categoryOut,
                   shouldRetryOut, drawIn, delayOut, respIn, errOut, policyHeap,
                   executor, derived, sigIn, tm, job>>
    /\ UNCHANGED <<varsRL, varsClient>>

NextSig ==
    \/ VerifyWebhookCall
    \/ GenerateCall

-----------------------------------------------------------------------------
(* TokenManager (order_sync_service.go:896-962).  The manager is the record
   tm: running is the flag of the same name, stopClosed says whether stopChan
   has been closed, ctxDone whether the context handed to Start is
   cancelled, loops holds one entry per Start that set the flag
   ("starting": Start has unlocked and not yet called wg.Add(1) and
   `go tm.run`, "init": launched, before the initial check, "select": in
   the select, "done": inside the deferred wg.Done, the counter brought to
   zero with a waiter registered and the state not yet reset, "exited":
   returned), stopPc is where each goroutine inside Stop stands ("idle":
   none, "close": before close(tm.stopChan), "wait": before tm.wg.Wait(),
   "parked": inside Wait, registered as a waiter and blocked on the
   semaphore), wg is the state word of the sync.WaitGroup (v the counter,
   w the number of waiters), sema the releases of its semaphore not yet
   consumed, startErr whether the last Start returned an error, panicked
   whether a call has panicked.  The ticker case of the select changes
   nothing of this state and is left out. *)

\* the goroutines that call Stop
Stoppers == {1, 2}

NewTokenManager ==
    [running |-> FALSE, stopClosed |-> FALSE, ctxDone |-> FALSE, loops |-> <<>>,
     stopPc |-> [s \in Stoppers |-> "idle"], wg |-> [v |-> 0, w |-> 0],
     sema |-> 0, startErr |-> FALSE, panicked |-> FALSE]

InitTM ==
    /\ ClassifyIdle
    /\ policyIn = DefaultRetryPolicy
    /\ evaluated = FALSE
    /\ tm = NewTokenManager
    /\ DelayIdle /\ RespIdle /\ PolicyIdle /\ SigIdle /\ JobIdle

\* Start(ctx) up to the unlock (order_sync_service.go:907-913): rejected
\* with an error while running; otherwise the flag is set.  The loop of this
\* Start is not launched yet and not counted by the wait group.
TMStart ==
    /\ ~tm.panicked
    /\ IF tm.running
       THEN tm' = [tm EXCEPT !.startErr = TRUE]
       ELSE /\ Len(tm.loops) < MaxStarts
            /\ tm' = [tm EXCEPT !.running = TRUE, !.startErr = FALSE,
                                !.loops = Append(@, "starting")]
    /\ UNCHANGED <<errIn, attemptIn, policyIn, retryableOut, categoryOut,
                   shouldRetryOut, evaluated, drawIn, delayOut, respIn, errOut,
                   policyHeap, executor, derived, sigIn, sigOut, job>>
    /\ UNCHANGED <<varsRL, varsClient>>

\* Start after the unlock (order_sync_service.go:915-916): wg.Add(1) and
\* go tm.run(ctx).  Add panics ("WaitGroup misuse: Add called concurrently
\* with Wait") when it raises the counter from zero while a waiter is
\* registered, which is the case inside a Done that has not reset the state.
TMStartLaunch(i) ==
    /\ ~tm.panicked
    /\ i \in DOMAIN tm.loops
    /\ tm.loops[i] = "starting"
    /\ tm' = IF tm.wg.w # 0 /\ tm.wg.v = 0
             THEN [tm EXCEPT !.wg.v = 1, !.panicked = TRUE]
             ELSE [tm EXCEPT !.wg.v = @ + 1, !.loops[i] = "init"]
    /\ UNCHANGED <<errIn, attemptIn, policyIn, retryableOut, categoryOut,
                   shouldRetryOut, evaluated, drawIn, delayOut, respIn, errOut,
                   policyHeap, executor, derived, sigIn, sigOut, job>>
    /\ UNCHANGED <<varsRL, varsClient>>

\* run: the initial checkAndRefreshTokens, then the select
TMRunCheck(i) ==
    /\ ~tm.panicked
    /\ i \in DOMAIN tm.loops
    /\ tm.loops[i] = "init"
    /\ tm' = [tm EXCEPT !.loops[i] = "select"]
    /\ UNCHANGED <<errIn, attemptIn, policyIn, retryableOut, categoryOut,
                   shouldRetryOut, evaluated, drawIn, delayOut, respIn, errOut,
                   policyHeap, executor, derived, sigIn, sigOut, job>>
    /\ UNCHANGED <<varsRL, varsClient>>

\* run: the select takes <-ctx.Done() or <-tm.stopChan (a closed channel is
\* always ready), the goroutine returns and the deferred wg.Done lowers the
\* counter; when that makes it zero with a waiter registered, Done goes on
\* to reset the state and release the waiter
TMRunExit(i) ==
    /\ ~tm.panicked
    /\ i \in DOMAIN tm.loops
    /\ tm.loops[i] = "select"
    /\ tm.ctxDone \/ tm.stopClosed
    /\ tm' = [tm EXCEPT !.wg.v = @ - 1,
                        !.loops[i] = IF tm.wg.v = 1 /\ tm.wg.w # 0
                                     THEN "done" ELSE "exited"]
    /\ UNCHANGED <<errIn, attemptIn, policyIn, retryableOut, categoryOut,
                   shouldRetryOut, evaluated, drawIn, delayOut, respIn, errOut,
                   policyHeap, executor, derived, sigIn, sigOut, job>>
    /\ UNCHANGED <<varsRL, varsClient>>

\* wg.Done with the counter at zero and waiters registered: the state is
\* reset to zero and every waiter released.  (The state cannot have changed
\* since the decrement: the only writer would be an Add, which panics in
\* TMStartLaunch.)
TMDoneRelease(i) ==
    /\ ~tm.panicked
    /\ i \in DOMAIN tm.loops
    /\ tm.loops[i] = "done"
    /\ tm' = [tm EXCEPT !.wg = [v |-> 0, w |-> 0], !.sema = @ + tm.wg.w,
                        !.loops[i] = "exited"]
    /\ UNCHANGED <<errIn, attemptIn, policyIn, retryableOut, categoryOut,
                   shouldRetryOut, evaluated, drawIn, delayOut, respIn, errOut,
                   policyHeap, executor, derived, sigIn, sigOut, job>>
    /\ UNCHANGED <<varsRL, varsClient>>

\* Stop up to the unlock: a no-op when not running, otherwise the flag is
\* cleared
TMStopBegin(s) ==
    /\ ~tm.panicked
    /\ tm.stopPc[s] = "idle"
    /\ tm' = IF tm.running
             THEN [tm EXCEPT !.running = FALSE, !.stopPc[s] = "close"]
             ELSE tm
    /\ UNCHANGED <<errIn, attemptIn, policyIn, retryableOut, categoryOut,
                   shouldRetryOut, evaluated, drawIn, delayOut, respIn, errOut,
                   policyHeap, executor, derived, sigIn, sigOut, job>>
    /\ UNCHANGED <<varsRL, varsClient>>

\* Stop: close(tm.stopChan); closing a closed channel panics
TMStopClose(s) ==
    /\ ~tm.panicked
    /\ tm.stopPc[s] = "close"
    /\ tm' = IF tm.stopClosed THEN [tm EXCEPT !.panicked = TRUE]
             ELSE [tm EXCEPT !.stopClosed = TRUE, !.stopPc[s] = "wait"]
    /\ UNCHANGED <<errIn, attemptIn, policyIn, retryableOut, categoryOut,
                   shouldRetryOut, evaluated, drawIn, delayOut, respIn, errOut,
                   policyHeap, executor, derived, sigIn, sigOut, job>>
    /\ UNCHANGED <<varsRL, varsClient>>

\* Stop: tm.wg.Wait() is entered.  With the counter at zero it returns at
\* once (the loop of a Start that has not reached wg.Add(1) is not
\* counted); otherwise the caller registers as a waiter and blocks.
TMStopWait(s) ==
    /\ ~tm.panicked
    /\ tm.stopPc[s] = "wait"
    /\ tm' = IF tm.wg.v = 0
             THEN [tm EXCEPT !.stopPc[s] = "idle"]
             ELSE [tm EXCEPT !.wg.w = @ + 1, !.stopPc[s] = "parked"]
    /\ UNCHANGED <<errIn, attemptIn, policyIn, retryableOut, categoryOut,
                   shouldRetryOut, evaluated, drawIn, delayOut, respIn, errOut,
                   policyHeap, executor, derived, sigIn, sigOut, job>>
    /\ UNCHANGED <<varsRL, varsClient>>

\* Stop: the waiter released by Done runs again inside Wait.  It panics
\* ("WaitGroup is reused before previous Wait has returned") when the state
\* is no longer zero, that is when a Start has called wg.Add(1) since the
\* release; otherwise Wait and Stop return.
TMStopWake(s) ==
    /\ ~tm.panicked
    /\ tm.stopPc[s] = "parked"
    /\ tm.sema > 0
    /\ tm' = IF tm.wg # [v |-> 0, w |-> 0]
             THEN [tm EXCEPT !.sema = @ - 1, !.panicked = TRUE]
             ELSE [tm EXCEPT !.sema = @ - 1, !.stopPc[s] = "idle"]
    /\ UNCHANGED <<errIn, attemptIn, policyIn, retryableOut, categoryOut,
                   shouldRetryOut, evaluated, drawIn, delayOut, respIn, errOut,
                   policyHeap, executor, derived, sigIn, sigOut, job>>
    /\ UNCHANGED <<varsRL, varsClient>>

\* the context handed to Start is cancelled
TMCancel ==
    /\ ~tm.panicked
    /\ ~tm.ctxDone
    /\ tm' = [tm EXCEPT !.ctxDone = TRUE]
    /\ UNCHANGED <<errIn, attemptIn, policyIn, retryableOut, categoryOut,
                   shouldRetryOut, evaluated, drawIn, delayOut, respIn, errOut,
                   policyHeap, executor, derived, sigIn, sigOut, job>>
    /\ UNCHANGED <<varsRL, varsClient>>

NextTM ==
    \/ TMStart
    \/ \E i \in 1..MaxStarts : TMStartLaunch(i)
    \/ \E i \in 1..MaxStarts : TMRunCheck(i)
    \/ \E i \in 1..MaxStarts : TMRunExit(i)
    \/ \E i \in 1..MaxStarts : TMDoneRelease(i)
    \/ \E s \in Stoppers : TMStopBegin(s)
    \/ \E s \in Stoppers : TMStopClose(s)
    \/ \E s \in Stoppers : TMStopWait(s)
    \/ \E s \in Stoppers : TMStopWake(s)
    \/ TMCancel

-----------------------------------------------------------------------------
(* ProductSyncService.PushProducts and processProductPushJob
   (part_000:192-391).  The job is the record job: in holds what the
   processing meets (whether MarkProcessing succeeds, whether the payload
   unmarshals, whether there is an encryptor and whether Decrypt succeeds,
   the platform of the connection, whether GetProducts succeeds and, for
   each product of its answer, whether the product has no category mapping,
   fails to be pushed or is pushed), status is the status stored for the
   job ("none" before it is created), marks counts the MarkCompleted and
   MarkFailed calls, successCount is the variable of that name and done says
   whether processProductPushJob has returned. *)

PushOutcomes == {"pushed", "nomapping", "pusherror"}

ProductLists == UNION {[1..n -> PushOutcomes] : n \in 0..MaxProducts}

JobInputs ==
    [markProcessingOK : BOOLEAN, payloadOK : BOOLEAN,
     decrypt : {"none", "ok", "fail"}, platform : {"shopee", "tiktok", "lazada"},
     fetchOK : BOOLEAN, products : ProductLists]

InitJob ==
    /\ ClassifyIdle
    /\ policyIn = DefaultRetryPolicy
    /\ evaluated = FALSE
    /\ job \in [in : JobInputs, status : {"none"}, marks : {0},
                 successCount : {0}, done : {FALSE}]
    /\ DelayIdle /\ RespIdle /\ PolicyIdle /\ SigIdle /\ TMIdle

\* the job after MarkFailed
MarkFailed(j) == [j EXCEPT !.status = "failed", !.marks = @ + 1, !.done = TRUE]

\* the job after MarkCompleted
MarkCompleted(j) == [j EXCEPT !.status = "completed", !.marks = @ + 1, !.done = TRUE]

\* processProductPushJob with the last status test only for a positive
\* successCount
processProductPushJobPositiveOnly(j) ==
    IF ~j.in.markProcessingOK THEN [j EXCEPT !.done = TRUE]
    ELSE LET p == [j EXCEPT !.status = "processing"]
             n == Cardinality({i \in DOMAIN j.in.products : j.in.products[i] = "pushed"})
             q == [p EXCEPT !.successCount = n]
         IN  IF ~j.in.payloadOK THEN MarkFailed(p)
             ELSE IF j.in.decrypt = "fail" THEN MarkFailed(p)
             ELSE IF j.in.platform \notin {"shopee", "tiktok"} THEN MarkFailed(p)
             ELSE IF ~j.in.fetchOK THEN MarkFailed(p)
             ELSE IF n > 0 THEN MarkCompleted(q)
             ELSE MarkFailed(q)

\* processProductPushJob: the job it leaves behind
processProductPushJob(j) ==
    IF ~j.in.markProcessingOK THEN [j EXCEPT !.done = TRUE]
    ELSE LET p == [j EXCEPT !.status = "processing"]
             n == Cardinality({i \in DOMAIN j.in.products : j.in.products[i] = "pushed"})
             q == [p EXCEPT !.successCount = n]
         IN  IF ~j.in.payloadOK THEN MarkFailed(p)
             ELSE IF j.in.decrypt = "fail" THEN MarkFailed(p)
             ELSE IF j.in.platform \notin {"shopee", "tiktok"} THEN MarkFailed(p)
             ELSE IF ~j.in.fetchOK THEN MarkFailed(p)
             ELSE IF n = Len(j.in.products) THEN MarkCompleted(q)
             ELSE IF n > 0 THEN MarkCompleted(q)
             ELSE MarkFailed(q)

\* PushProducts as far as the job goes: the job is created pending and its
\* processing launched
PushProducts ==
    /\ job.status = "none"
    /\ job' = [job EXCEPT !.status = "pending"]
    /\ UNCHANGED <<errIn, attemptIn, policyIn, retryableOut, categoryOut,
                   shouldRetryOut, evaluated, drawIn, delayOut, respIn, errOut,
                   policyHeap, executor, derived, sigIn, sigOut, tm>>
    /\ UNCHANGED <<varsRL, varsClient>>

\* the goroutine launched by PushProducts enters processProductPushJob: the
\* first status write, MarkProcessing (part_000:245-248); when it fails the
\* function returns and the job stays pending
JobMarkProcessing ==
    /\ job.status = "pending"
    /\ ~job.done
    /\ job' = IF job.in.markProcessingOK
              THEN [job EXCEPT !.status = "processing"]
              ELSE [job EXCEPT !.done = TRUE]
    /\ UNCHANGED <<errIn, attemptIn, policyIn, retryableOut, categoryOut,
                   shouldRetryOut, evaluated, drawIn, delayOut, respIn, errOut,
                   policyHeap, executor, derived, sigIn, sigOut, tm>>
    /\ UNCHANGED <<varsRL, varsClient>>

\* the rest of processProductPushJob (part_000:251-390), which ends in the
\* second status write, MarkCompleted or MarkFailed: the job is stored as
\* processing for as long as the payload is parsed, the token decrypted,
\* the products fetched and pushed
ProcessProductPushJob ==
    /\ job.status = "processing"
    /\ ~job.done
    /\ job' = processProductPushJob(job)
    /\ UNCHANGED <<errIn, attemptIn, policyIn, retryableOut, categoryOut,
                   shouldRetryOut, evaluated, drawIn, delayOut, respIn, errOut,
                   policyHeap, executor, derived, sigIn, sigOut, tm>>
    /\ UNCHANGED <<varsRL, varsClient>>

NextJob ==
    \/ PushProducts
    \/ JobMarkProcessing
    \/ ProcessProductPushJob

\* Policy objects live at addresses: DefaultRetryPolicy() and NoRetryPolicy()
\* return pointers, the With* methods have pointer receivers and NewExecutor
\* stores the pointer it is given.
PolicyAddrs == {1, 2}

InitPolicy ==
    /\ ClassifyIdle
    /\ policyIn = DefaultRetryPolicy
    /\ evaluated = FALSE
    /\ policyHeap = (1 :> DefaultRetryPolicy) @@ (2 :> NoRetryPolicy)
    /\ executor = <<>>
    /\ derived = 0
    /\ DelayIdle /\ RespIdle /\ SigIdle /\ TMIdle /\ JobIdle

\* NewExecutor(policy): the executor holds the address; the policy's value at
\* this moment is recorded beside it for comparison
NewExecutor(a) ==
    /\ executor = <<>>
    /\ executor' = [policy |-> a, built |-> policyHeap[a]]
    /\ UNCHANGED <<errIn, attemptIn, policyIn, retryableOut, categoryOut,
                   shouldRetryOut, evaluated, drawIn, delayOut, respIn, errOut,
                   policyHeap, derived, sigIn, sigOut, tm, job>>
    /\ UNCHANGED <<varsRL, varsClient>>

\* p.WithMaxAttempts(n) on the policy at address a: assigns the field of the
\* receiver and returns the receiver
CallWithMaxAttempts(a, n) ==
    /\ policyHeap' = [policyHeap EXCEPT ![a] = WithMaxAttempts(@, n)]
    /\ derived' = a
    /\ UNCHANGED <<errIn, attemptIn, policyIn, retryableOut, categoryOut,
                   shouldRetryOut, evaluated, drawIn, delayOut, respIn, errOut,
                   executor, sigIn, sigOut, tm, job>>
    /\ UNCHANGED <<varsRL, varsClient>>

CallWithInitialDelay(a, d) ==
    /\ policyHeap' = [policyHeap EXCEPT ![a] = WithInitialDelay(@, d)]
    /\ derived' = a
    /\ UNCHANGED <<errIn, attemptIn, policyIn, retryableOut, categoryOut,
                   shouldRetryOut, evaluated, drawIn, delayOut, respIn, errOut,
                   executor, sigIn, sigOut, tm, job>>
    /\ UNCHANGED <<varsRL, varsClient>>

CallWithMaxDelay(a, d) ==
    /\ policyHeap' = [policyHeap EXCEPT ![a] = WithMaxDelay(@, d)]
    /\ derived' = a
    /\ UNCHANGED <<errIn, attemptIn, policyIn, retryableOut, categoryOut,
                   shouldRetryOut, evaluated, drawIn, delayOut, respIn, errOut,
                   executor, sigIn, sigOut, tm, job>>
    /\ UNCHANGED <<varsRL, varsClient>>

CallWithMultiplier(a, m) ==
    /\ policyHeap' = [policyHeap EXCEPT ![a] = WithMultiplier(@, m)]
    /\ derived' = a
    /\ UNCHANGED <<errIn, attemptIn, policyIn, retryableOut, categoryOut,
                   shouldRetryOut, evaluated, drawIn, delayOut, respIn, errOut,
                   executor, sigIn, sigOut, tm, job>>
    /\ UNCHANGED <<varsRL, varsClient>>

CallWithJitter(a, j) ==
    /\ policyHeap' = [policyHeap EXCEPT ![a] = WithJitter(@, j)]
    /\ derived' = a
    /\ UNCHANGED <<errIn, attemptIn, policyIn, retryableOut, categoryOut,
                   shouldRetryOut, evaluated, drawIn, delayOut, respIn, errOut,
                   executor, sigIn, sigOut, tm, job>>
    /\ UNCHANGED <<varsRL, varsClient>>

NextPolicy ==
    \/ \E a \in PolicyAddrs : NewExecutor(a)
    \/ \E a \in PolicyAddrs, n \in {1, MaxAttemptsBound} : CallWithMaxAttempts(a, n)
    \/ \E a \in PolicyAddrs, d \in {0, 1000} : CallWithInitialDelay(a, d)
    \/ \E a \in PolicyAddrs, d \in {0, 30000} : CallWithMaxDelay(a, d)
    \/ \E a \in PolicyAddrs, m \in {[num |-> 2, den |-> 1], [num |-> 1, den |-> 1]} :
           CallWithMultiplier(a, m)
    \/ \E a \in PolicyAddrs, j \in {0, 1} : CallWithJitter(a, j)

-----------------------------------------------------------------------------
(* Token bucket and RateLimiter (ratelimit.go) *)

NsPerSecond == 1000000000

Min(a, b) == IF a <= b THEN a ELSE b

\* floor(a * n / d) for 0 <= a <= d, without forming a * n
MulDiv(a, n, d) == a * (n \div d) + (a * (n % d)) \div d

Str_p     == <<"/","p","/">>
Str_pq    == <<"/","p","/","q","/">>
Str_px    == <<"/","p","/","x">>
Str_pqy   == <<"/","p","/","q","/","y">>
Str_z     == <<"/","z">>
KeyDefault == <<"d","e","f","a","u","l","t">>

\* RateLimitConfig of the model: two path prefixes, one a prefix of the other
Config ==
    [DefaultRPS |-> 1, DefaultBurst |-> 2,
     PathLimits |-> {[prefix |-> Str_p,  RPS |-> 2, Burst |-> 2],
                     [prefix |-> Str_pq, RPS |-> 1, Burst |-> 1]}]

Paths == {Str_px, Str_pqy, Str_z}

\* len(path) >= len(prefix) && path[:len(prefix)] == prefix
HasPrefix(path, prefix) ==
    /\ Len(path) >= Len(prefix)
    /\ SubSeq(path, 1, Len(prefix)) = prefix

\* findBucketKey ranges over the map in an unspecified order and returns the
\* first match: every matching prefix is a possible result
findBucketKey(path) ==
    IF \E l \in Config.PathLimits : HasPrefix(path, l.prefix)
    THEN {l.prefix : l \in {m \in Config.PathLimits : HasPrefix(path, m.prefix)}}
    ELSE {KeyDefault}

\* getLimitForPath: likewise, an independent iteration of the map
getLimitForPath(path) ==
    IF \E l \in Config.PathLimits : HasPrefix(path, l.prefix)
    THEN {[rps |-> l.RPS, burst |-> l.Burst] :
             l \in {m \in Config.PathLimits : HasPrefix(path, m.prefix)}}
    ELSE {[rps |-> Config.DefaultRPS, burst |-> Config.DefaultBurst]}

\* newTokenBucket(rps, burst) at time t.  calls and created are bookkeeping
\* of the model: the number of take() calls made and the creation time.
newTokenBucket(rps, burst, t) ==
    [tokens |-> burst * TicksPerSecond, maxTokens |-> burst * TicksPerSecond,
     refillRate |-> rps, lastRefill |-> t, calls |-> 0, created |-> t]

\* the refill of take(): tokens += elapsed * refillRate, capped
RefillNoCap(tb, t) == tb.tokens + (t - tb.lastRefill) * tb.refillRate

Refill(tb, t) ==
    Min(tb.maxTokens, tb.tokens + (t - tb.lastRefill) * tb.refillRate)

\* the bucket after take() at time t
takeBucketNoRefill(tb, t) ==
    LET r == tb.tokens
    IN  [tb EXCEPT !.tokens = IF r >= TicksPerSecond THEN r - TicksPerSecond ELSE r,
                   !.lastRefill = t,
                   !.calls = @ + 1]

takeBucket(tb, t) ==
    LET r == Refill(tb, t)
    IN  [tb EXCEPT !.tokens = IF r >= TicksPerSecond THEN r - TicksPerSecond ELSE r,
                   !.lastRefill = t,
                   !.calls = @ + 1]

\* the duration take() returns at time t, in nanoseconds
takeWait(tb, t) ==
    LET r == Refill(tb, t)
    IN  IF r >= TicksPerSecond THEN 0
        ELSE MulDiv(TicksPerSecond - r, NsPerSecond, TicksPerSecond * tb.refillRate)

BucketStatus(tb) ==
    [AvailableTokens |-> tb.tokens, MaxTokens |-> tb.maxTokens,
     RefillRate |-> tb.refillRate]

NoRet == [op |-> "none"]

\* the number of take() calls made on the buckets of the set S
RECURSIVE TotalCalls(_)
TotalCalls(S) ==
    IF S = {} THEN 0
    ELSE LET k == CHOOSE x \in S : TRUE
         IN  buckets[k].calls + TotalCalls(S \ {k})

\* the goroutines that call TryAcquire or Wait concurrently
Getters == {1, 2}

\* the goroutines that call RateLimiter.Wait
Waiters == {1}

\* a caller of Wait that is not in a call: pc is "idle", "calling" (inside
\* getBucket or before take()), "timer" (take() returned a positive wait,
\* before time.NewTimer), "waiting" (the timer is created, in the select) or
\* "returned"; start is the time of time.NewTimer and wait its duration
\* (ns); ctxDone and cancelAt say whether and when the context was
\* cancelled; out is the value returned ("nil" or "ctx") and end the time of
\* the return.  Beside these it is recorded which bucket the call got from
\* getBucket (key), how much its take() took out of that bucket (consumed,
\* in 1/TicksPerSecond token) and how many of the caller's Wait calls have
\* returned nil so far, bucket by bucket (nils).
NoWaiter ==
    [pc |-> "idle", start |-> 0, wait |-> 0, ctxDone |-> FALSE, cancelAt |-> 0,
     out |-> "none", end |-> 0, key |-> <<>>, consumed |-> 0, nils |-> <<>>]

\* the record of nil returns after one more for key
OneMoreNil(nils, key) ==
    [k \in DOMAIN nils \cup {key} |->
        IF k = key THEN (IF key \in DOMAIN nils THEN nils[key] + 1 ELSE 1)
        ELSE nils[k]]

\* the timer created at tick start with duration wait (ns) has fired at tick t
\* (elapsed >= wait, with the elapsed time split into whole seconds and a
\* rest so that no product leaves the integers of the checker; a wait of
\* take() is at most 1/refillRate second, hence below two seconds)
Expired(start, wait, t) ==
    LET whole == (t - start) \div TicksPerSecond
        rest  == (t - start) % TicksPerSecond
    IN  \/ whole >= 2
        \/ wait <= whole * NsPerSecond + MulDiv(rest, NsPerSecond, TicksPerSecond)

\* a goroutine that is not inside TryAcquire or Wait: pc is "idle", "rlock"
\* (before the read-locked lookup), "lock" (before the write-locked
\* re-check) or "take" (getBucket returned, before take()); op is the method
\* called ("try" or "wait"), key the result of findBucketKey, held the
\* bucket getBucket returned (the how-manieth bucket stored for the key) and
\* viaLock whether it came from the write-locked part
NoGetter ==
    [pc |-> "idle", op |-> "none", path |-> <<>>, key |-> <<>>, held |-> 0,
     viaLock |-> FALSE]

\* the record of stored buckets after one more is stored for key
Stored(key) ==
    [k \in DOMAIN made \cup {key} |->
        IF k = key THEN (IF key \in DOMAIN made THEN made[key] + 1 ELSE 1)
        ELSE made[k]]

\* the goroutine that calls GetStatus, outside a call: pc is "idle" or
\* "range" (rl.mu read-locked, in the loop over rl.buckets); todo holds the
\* keys the loop has not visited and status the map built so far
NoReader == [pc |-> "idle", todo |-> {}, status |-> <<>>]

InitRL ==
    /\ now = 0
    /\ buckets = <<>>
    /\ ret = NoRet
    /\ waiter = [w \in Waiters |-> NoWaiter]
    /\ made = <<>>
    /\ getter = [g \in Getters |-> NoGetter]
    /\ reader = NoReader

\* time passes: up to MaxTime, and beyond it until every pending timer of
\* Wait has fired
Tick ==
    /\ \/ now < MaxTime
       \/ \E w \in Waiters : /\ waiter[w].pc = "waiting"
                              /\ ~Expired(waiter[w].start, waiter[w].wait, now)
    /\ now' = now + 1
    /\ UNCHANGED <<buckets, ret, waiter, made, getter, reader>>
    /\ UNCHANGED <<varsErr, varsClient>>

\* the number of goroutines inside TryAcquire or Wait that have not reached
\* take()
InFlight == Cardinality({g \in Getters : getter[g].pc # "idle"})

\* TryAcquire(path) of goroutine g (ratelimit.go:133-134) up to the read
\* lock of getBucket: findBucketKey (ratelimit.go:141)
TryAcquire(g, path) ==
    /\ getter[g].pc = "idle"
    /\ g \in Waiters => waiter[g].pc \in {"idle", "returned"}
    /\ TotalCalls(DOMAIN buckets) + InFlight < MaxTakes
    /\ \E key \in findBucketKey(path) :
           getter' = [getter EXCEPT ![g] =
                        [pc |-> "rlock", op |-> "try", path |-> path,
                         key |-> key, held |-> 0, viaLock |-> FALSE]]
    /\ UNCHANGED <<now, buckets, ret, waiter, made, reader>>
    /\ UNCHANGED <<varsErr, varsClient>>

\* Wait(ctx, path) of goroutine w (ratelimit.go:112-113) up to the read lock
\* of getBucket: findBucketKey (ratelimit.go:141).  cancelled says whether
\* ctx is already done at the call.
WaitCall(w, path, cancelled) ==
    /\ getter[w].pc = "idle"
    /\ waiter[w].pc \in {"idle", "returned"}
    /\ TotalCalls(DOMAIN buckets) + InFlight < MaxTakes
    /\ \E key \in findBucketKey(path) :
           getter' = [getter EXCEPT ![w] =
                        [pc |-> "rlock", op |-> "wait", path |-> path,
                         key |-> key, held |-> 0, viaLock |-> FALSE]]
    /\ waiter' = [waiter EXCEPT ![w] =
                    [pc |-> "calling", start |-> 0, wait |-> 0,
                     ctxDone |-> cancelled, cancelAt |-> now, out |-> "none",
                     end |-> 0, key |-> <<>>, consumed |-> 0,
                     nils |-> waiter[w].nils]]
    /\ UNCHANGED <<now, buckets, ret, made, reader>>
    /\ UNCHANGED <<varsErr, varsClient>>

\* the read-locked lookup (ratelimit.go:143-149)
GetBucketRead(g) ==
    /\ getter[g].pc = "rlock"
    /\ getter' = [getter EXCEPT ![g] =
          IF getter[g].key \in DOMAIN buckets
          THEN [@ EXCEPT !.pc = "take", !.held = made[getter[g].key]]
          ELSE [@ EXCEPT !.pc = "lock"]]
    /\ UNCHANGED <<now, buckets, ret, waiter, made, reader>>
    /\ UNCHANGED <<varsErr, varsClient>>

\* the write-locked part as it would be without the second lookup: a bucket
\* is created and stored whatever the map holds
GetBucketWriteNoRecheck(g) ==
    /\ getter[g].pc = "lock"
    /\ reader.pc = "idle"
    /\ \E lim \in getLimitForPath(getter[g].path) :
           buckets' = [k \in DOMAIN buckets \cup {getter[g].key} |->
                          IF k = getter[g].key
                          THEN newTokenBucket(lim.rps, lim.burst, now)
                          ELSE buckets[k]]
    /\ made' = Stored(getter[g].key)
    /\ getter' = [getter EXCEPT ![g].pc = "take",
                                ![g].held = made'[getter[g].key],
                                ![g].viaLock = TRUE]
    /\ UNCHANGED <<now, ret, waiter, reader>>
    /\ UNCHANGED <<varsErr, varsClient>>

\* the write-locked part (ratelimit.go:152-165): the lookup is repeated and
\* only when it fails again is a bucket created, with the limits of
\* getLimitForPath, and stored.  rl.mu cannot be write-locked while
\* GetStatus holds its read lock.
GetBucketWrite(g) ==
    /\ getter[g].pc = "lock"
    /\ reader.pc = "idle"
    /\ IF getter[g].key \in DOMAIN buckets
       THEN /\ getter' = [getter EXCEPT ![g].pc = "take",
                                        ![g].held = made[getter[g].key],
                                        ![g].viaLock = TRUE]
            /\ UNCHANGED <<buckets, made>>
       ELSE /\ \E lim \in getLimitForPath(getter[g].path) :
                   buckets' = [k \in DOMAIN buckets \cup {getter[g].key} |->
                                  IF k = getter[g].key
                                  THEN newTokenBucket(lim.rps, lim.burst, now)
                                  ELSE buckets[k]]
            /\ made' = Stored(getter[g].key)
            /\ getter' = [getter EXCEPT ![g].pc = "take",
                                        ![g].held = made'[getter[g].key],
                                        ![g].viaLock = TRUE]
    /\ UNCHANGED <<now, ret, waiter, reader>>
    /\ UNCHANGED <<varsErr, varsClient>>

\* the caller of Wait after take() returned waitTime on the bucket tb
\* (ratelimit.go:114-118): a zero wait returns nil at once, whatever the
\* context; otherwise the call goes on to create its timer
AfterTake(x, key, tb, waitTime) ==
    IF waitTime = 0
    THEN [x EXCEPT !.pc = "returned", !.start = now, !.wait = 0,
                   !.out = "nil", !.end = now, !.key = key,
                   !.consumed = Refill(tb, now) - takeBucket(tb, now).tokens,
                   !.nils = OneMoreNil(@, key)]
    ELSE [x EXCEPT !.pc = "timer", !.wait = waitTime, !.key = key,
                   !.consumed = Refill(tb, now) - takeBucket(tb, now).tokens]

\* take() on the bucket getBucket returned (ratelimit.go:135 in TryAcquire,
\* ratelimit.go:114 in Wait), under the bucket's own lock.  A bucket that is
\* no longer the one in the map is taken from without any effect on the map.
GetBucketTake(g) ==
    /\ getter[g].pc = "take"
    /\ LET key == getter[g].key
       IN  IF key \in DOMAIN buckets /\ made[key] = getter[g].held
           THEN /\ buckets' = [buckets EXCEPT ![key] = takeBucket(@, now)]
                /\ ret' = [op |-> "take", path |-> getter[g].path, key |-> key,
                           wait |-> takeWait(buckets[key], now)]
                /\ waiter' = IF getter[g].op = "wait"
                             THEN [waiter EXCEPT ![g] =
                                     AfterTake(@, key, buckets[key],
                                               takeWait(buckets[key], now))]
                             ELSE waiter
           ELSE /\ ret' = NoRet
                /\ waiter' = IF getter[g].op = "wait"
                             THEN [waiter EXCEPT ![g].pc = "returned",
                                                 ![g].out = "nil",
                                                 ![g].end = now]
                             ELSE waiter
                /\ UNCHANGED buckets
    /\ getter' = [getter EXCEPT ![g] = NoGetter]
    /\ UNCHANGED <<now, made, reader>>
    /\ UNCHANGED <<varsErr, varsClient>>

\* Wait: time.NewTimer(waitTime) (ratelimit.go:120); the timer runs from
\* the moment of this step, not from the moment of take()
WaitNewTimer(w) ==
    /\ waiter[w].pc = "timer"
    /\ waiter' = [waiter EXCEPT ![w].pc = "waiting", ![w].start = now]
    /\ UNCHANGED <<now, buckets, ret, made, getter, reader>>
    /\ UNCHANGED <<varsErr, varsClient>>

\* the select of Wait takes <-timer.C (ratelimit.go:126-127): the timer has
\* fired.  The select has no order of preference: with the context done as
\* well, this case can still be the one taken.
WaitTimer(w) ==
    /\ waiter[w].pc = "waiting"
    /\ Expired(waiter[w].start, waiter[w].wait, now)
    /\ waiter' = [waiter EXCEPT ![w].pc = "returned", ![w].out = "nil",
                                ![w].end = now,
                                ![w].nils = OneMoreNil(@, waiter[w].key)]
    /\ UNCHANGED <<now, buckets, ret, made, getter, reader>>
    /\ UNCHANGED <<varsErr, varsClient>>

\* the select of Wait takes <-ctx.Done() (ratelimit.go:124-125), whether or
\* not the timer has fired too
WaitCancelled(w) ==
    /\ waiter[w].pc = "waiting"
    /\ waiter[w].ctxDone
    /\ waiter' = [waiter EXCEPT ![w].pc = "returned", ![w].out = "ctx",
                                ![w].end = now]
    /\ UNCHANGED <<now, buckets, ret, made, getter, reader>>
    /\ UNCHANGED <<varsErr, varsClient>>

\* the caller of a Wait that has not returned cancels its context
CancelWait(w) ==
    /\ waiter[w].pc \in {"calling", "timer", "waiting"}
    /\ ~waiter[w].ctxDone
    /\ waiter' = [waiter EXCEPT ![w].ctxDone = TRUE, ![w].cancelAt = now]
    /\ UNCHANGED <<now, buckets, ret, made, getter, reader>>
    /\ UNCHANGED <<varsErr, varsClient>>

\* GetStatus() up to the loop (ratelimit.go:189-193): rl.mu is read-locked
\* for the whole call and the result map made.  The read lock is compatible
\* with the read-locked lookups of getBucket and excludes its write-locked
\* part.
GetStatus ==
    /\ reader.pc = "idle"
    /\ reader' = [pc |-> "range", todo |-> DOMAIN buckets, status |-> <<>>]
    /\ UNCHANGED <<now, buckets, ret, waiter, made, getter>>
    /\ UNCHANGED <<varsErr, varsClient>>

\* one turn of the loop of GetStatus (ratelimit.go:194-201): the bucket of
\* key k, any key not yet visited (the order of a range over a map is
\* unspecified), is copied under that bucket's lock
GetStatusCopy(k) ==
    /\ reader.pc = "range"
    /\ k \in reader.todo
    /\ reader' = [reader EXCEPT
                    !.todo = @ \ {k},
                    !.status = [j \in DOMAIN reader.status \cup {k} |->
                                   IF j = k THEN BucketStatus(buckets[k])
                                   ELSE reader.status[j]]]
    /\ UNCHANGED <<now, buckets, ret, waiter, made, getter>>
    /\ UNCHANGED <<varsErr, varsClient>>

\* the return of GetStatus (ratelimit.go:202-203)
GetStatusReturn ==
    /\ reader.pc = "range"
    /\ reader.todo = {}
    /\ ret' = [op |-> "status", map |-> reader.status]
    /\ reader' = NoReader
    /\ UNCHANGED <<now, buckets, waiter, made, getter>>
    /\ UNCHANGED <<varsErr, varsClient>>

\* the goroutine of the token-bucket specification that calls TryAcquire
RLGetters == {1}

\* the keys a bucket can be stored under
BucketKeys == UNION {findBucketKey(path) : path \in Paths}

\* the paths of the calls of the specifications that follow time beside
\* GetStatus or Wait: two paths with a bucket each
StatusPaths == {Str_px, Str_z}

\* one goroutine calls TryAcquire while time passes
NextRL ==
    \/ Tick
    \/ \E g \in RLGetters, path \in Paths : TryAcquire(g, path)
    \/ \E g \in RLGetters : GetBucketRead(g)
    \/ \E g \in RLGetters : GetBucketWrite(g)
    \/ \E g \in RLGetters : GetBucketTake(g)

\* one goroutine calls TryAcquire and another GetStatus while time passes
NextStatus ==
    \/ Tick
    \/ \E g \in RLGetters, path \in StatusPaths : TryAcquire(g, path)
    \/ \E g \in RLGetters : GetBucketRead(g)
    \/ \E g \in RLGetters : GetBucketWrite(g)
    \/ \E g \in RLGetters : GetBucketTake(g)
    \/ GetStatus
    \/ \E k \in BucketKeys : GetStatusCopy(k)
    \/ GetStatusReturn

\* two goroutines call TryAcquire, and one of them Wait as well, at one
\* instant
NextBucket ==
    \/ \E g \in Getters, path \in Paths : TryAcquire(g, path)
    \/ \E w \in Waiters, path \in Paths : WaitCall(w, path, FALSE)
    \/ \E w \in Waiters : WaitNewTimer(w)
    \/ \E w \in Waiters : CancelWait(w)
    \/ \E w \in Waiters : WaitCancelled(w)
    \/ \E g \in Getters : GetBucketRead(g)
    \/ \E g \in Getters : GetBucketWrite(g)
    \/ \E g \in Getters : GetBucketTake(g)

\* one goroutine calls Wait while time passes
NextWait ==
    \/ Tick
    \/ \E w \in Waiters, path \in StatusPaths, cancelled \in BOOLEAN :
           WaitCall(w, path, cancelled)
    \/ \E w \in Waiters : GetBucketRead(w)
    \/ \E w \in Waiters : GetBucketWrite(w)
    \/ \E w \in Waiters : GetBucketTake(w)
    \/ \E w \in Waiters : WaitNewTimer(w)
    \/ \E w \in Waiters : WaitTimer(w)
    \/ \E w \in Waiters : WaitCancelled(w)
    \/ \E w \in Waiters : CancelWait(w)

-----------------------------------------------------------------------------
(* Executor.Execute (retry.go:155-184) as loop fragments *)

NewResult == [Attempts |-> 0, LastError |-> NilErr]

\* Where control stands after a fragment: the next program point, the loop
\* variable, the RetryResult, whether WaitForRetry was called and the delay
\* it waits for.
Ctl(p, a, r, w, d) == [pc |-> p, attempt |-> a, result |-> r, waited |-> w, delay |-> d]

\* the loop head: for attempt <= maxAttempts { result.Attempts = attempt; ...
\* and, when the loop is over, the return of the result
LoopHead(p, a, r, w) ==
    IF a <= p.maxAttempts
    THEN Ctl("request", a, [r EXCEPT !.Attempts = a], w, 0)
    ELSE Ctl("done", a, r, w, 0)

\* the loop body after operation() returned e at attempt a; u is the random
\* draw of DelayForAttempt
AfterOpIgnoresShouldRetry(p, a, r, e, u) ==
    IF e.kind = "nil" THEN Ctl("done", a, r, FALSE, 0)
    ELSE LET r1 == [r EXCEPT !.LastError = e]
         IN  IF a >= p.maxAttempts THEN Ctl("done", a, r1, FALSE, 0)
             ELSE LET d == DelayForAttempt(p, a, u)
                  IN  IF d <= 0 THEN LoopHead(p, a + 1, r1, TRUE)
                      ELSE Ctl("backoff", a, r1, TRUE, d)

AfterOpKeepsFirstError(p, a, r, e, u) ==
    IF e.kind = "nil" THEN Ctl("done", a, r, FALSE, 0)
    ELSE LET r1 == IF r.LastError.kind = "nil" THEN [r EXCEPT !.LastError = e] ELSE r
         IN  IF ~ShouldRetry(p, e, a) THEN Ctl("done", a, r1, FALSE, 0)
             ELSE IF a < p.maxAttempts
                  THEN LET d == DelayForAttempt(p, a, u)
                       IN  IF d <= 0 THEN LoopHead(p, a + 1, r1, TRUE)
                           ELSE Ctl("backoff", a, r1, TRUE, d)
                  ELSE LoopHead(p, a + 1, r1, FALSE)

AfterOp(p, a, r, e, u) ==
    IF e.kind = "nil" THEN Ctl("done", a, r, FALSE, 0)
    ELSE LET r1 == [r EXCEPT !.LastError = e]
         IN  IF ~ShouldRetry(p, e, a) THEN Ctl("done", a, r1, FALSE, 0)
             ELSE IF a < p.maxAttempts
                  THEN LET d == DelayForAttempt(p, a, u)
                       IN  IF d <= 0 THEN LoopHead(p, a + 1, r1, TRUE)
                           ELSE Ctl("backoff", a, r1, TRUE, d)
                  ELSE LoopHead(p, a + 1, r1, FALSE)

-----------------------------------------------------------------------------
(* Client.doRequest: classification of the outcome of the HTTP call
   (returns.go:569-635) *)

\* An outcome of httpClient.Do and io.ReadAll: transport is "ok", "fail"
\* (httpClient.Do returned an error) or "readfail" (io.ReadAll did); json
\* says whether the body parses as the envelope; resultOK says whether the
\* body unmarshals into the caller's result (or result is nil).
Response(t, s, env, ok) ==
    [transport |-> t, status |-> s, json |-> env.json, error |-> env.error,
     message |-> env.message, request_id |-> env.request_id, resultOK |-> ok]

Envelope(j, e, m, id) == [json |-> j, error |-> e, message |-> m, request_id |-> id]

\* doRequest as it would be if the envelope were looked at for HTTP error
\* statuses only
doRequestResultEnvelopeOnError(r) ==
    IF r.transport = "fail" THEN PlainErr(TextRequestFailed)
    ELSE IF r.transport = "readfail" THEN PlainErr(TextReadFailed)
    ELSE IF r.status >= 400
         THEN IF r.json /\ r.error # "" /\ r.error # "success"
              THEN NewAPIErrorWithRequestID(r.error, r.message, r.status, r.request_id)
              ELSE NewAPIError(CodeServerError, MsgHTTPError(r.status), r.status)
    ELSE IF ~r.resultOK THEN PlainErr(TextParseFailed)
    ELSE NilErr

doRequestResult(r) ==
    IF r.transport = "fail" THEN PlainErr(TextRequestFailed)
    ELSE IF r.transport = "readfail" THEN PlainErr(TextReadFailed)
    ELSE IF r.json /\ r.error # "" /\ r.error # "success"
         THEN NewAPIErrorWithRequestID(r.error, r.message, r.status, r.request_id)
    ELSE IF r.status >= 400
         THEN NewAPIError(CodeServerError, MsgHTTPError(r.status), r.status)
    ELSE IF ~r.resultOK THEN PlainErr(TextParseFailed)
    ELSE NilErr

\* err.Error() of an error value (retry.go:262-267, fmt.Errorf prefixes)
ErrorText(e) ==
    IF e.kind = "api"
    THEN IF e.reqid # ""
         THEN <<"shopee [", e.code, "]: ">> \o e.msg \o <<" (request_id: ", e.reqid, ")">>
         ELSE <<"shopee [", e.code, "]: ">> \o e.msg
    ELSE <<e.kind, e.code>>

\* ErrTokenExpired.Error(): "access token has expired" (retry.go:197)
ErrTokenExpiredText ==
    <<"a","c","c","e","s","s"," ","t","o","k","e","n"," ","h","a","s"," ",
      "e","x","p","i","r","e","d">>

\* isTokenExpiredError (returns.go:672-678)
isTokenExpiredError(e) ==
    IF e.kind = "api" THEN e.code = CodeAuthError ELSE FALSE

\* the condition under which the closure of Do tries a refresh (returns.go:487)
WantsRefresh(e) ==
    e.kind # "nil" /\ (ErrTokenExpiredText = ErrorText(e) \/ isTokenExpiredError(e))

\* the error the closure returns after a successful refresh (returns.go:496)
RefreshedPlaceholder ==
    NewAPIError(CodeAuthError, MsgTokenRefreshed, StatusUnauthorized)

-----------------------------------------------------------------------------
(* Inputs of the client *)

Callers == {1, 2}

\* the callers that run in the sequential specification
SeqCallers == {1}

ZeroDelayPolicy ==
    [maxAttempts |-> 3, initialDelay |-> 0, maxDelay |-> 0,
     multiplier |-> [num |-> 2, den |-> 1], jitterFactor |-> 0]

Policies ==
    {WithMaxAttempts(b, n) : b \in {DefaultRetryPolicy, ZeroDelayPolicy},
                             n \in 0..MaxAttemptsBound}

Envelopes ==
    {Envelope(FALSE, "", MsgEmpty, ""),
     Envelope(TRUE, "", MsgEmpty, ""),
     Envelope(TRUE, CodeAuthError, MsgAccessTokenInvalid, "r1"),
     Envelope(TRUE, CodeAuthError, MsgPermission, ""),
     Envelope(TRUE, CodeInvalidParam, MsgEmpty, ""),
     Envelope(TRUE, CodeExceedLimit, MsgEmpty, ""),
     Envelope(TRUE, CodeServerError, MsgEmpty, "")}

ResponseStatuses == {200, StatusBadRequest, StatusTooManyRequests,
                     StatusServiceUnavailable}

\* every status with every envelope; a body that does not fit the caller's
\* result is drawn for the plain success response only
Responses ==
    {Response("ok", s, env, TRUE) : s \in ResponseStatuses, env \in Envelopes}
    \cup {Response("ok", 200, Envelope(TRUE, "", MsgEmpty, ""), FALSE)}
    \cup {Response(t, 0, Envelope(FALSE, "", MsgEmpty, ""), FALSE) :
            t \in {"fail", "readfail"}}

\* Inputs of the classification alone: statuses on both sides of 400, the
\* envelopes above and a body whose "error" is set but which json.Unmarshal
\* rejects (another field has the wrong type), each with a body that fits
\* the caller's result and one that does not, and the two transport failures
RespStatuses == {200, 201, 399, StatusBadRequest, StatusUnauthorized, 404,
                 StatusTooManyRequests, 500, StatusServiceUnavailable}

RespInputs ==
    {Response("ok", s, env, ok) :
        s \in RespStatuses,
        env \in Envelopes \cup {Envelope(FALSE, CodeAuthError, MsgEmpty, "r2")},
        ok \in BOOLEAN}
    \cup {Response(t, 0, Envelope(FALSE, "", MsgEmpty, ""), FALSE) :
            t \in {"fail", "readfail"}}

InitResp ==
    /\ ClassifyIdle
    /\ policyIn = DefaultRetryPolicy
    /\ evaluated = FALSE
    /\ respIn \in RespInputs
    /\ errOut = NilErr
    /\ DelayIdle /\ PolicyIdle /\ SigIdle /\ TMIdle /\ JobIdle

\* the part of doRequest that follows httpClient.Do, applied to respIn
ClassifyResponse ==
    /\ ~evaluated
    /\ errOut' = doRequestResult(respIn)
    /\ evaluated' = TRUE
    /\ UNCHANGED <<errIn, attemptIn, policyIn, retryableOut, categoryOut,
                   shouldRetryOut, drawIn, delayOut, respIn, policyHeap,
                   executor, derived, sigIn, sigOut, tm, job>>
    /\ UNCHANGED <<varsRL, varsClient>>

NextResp == ClassifyResponse

\* A Request, as far as doRequest depends on it: whether json.Marshal accepts
\* its Body and whether http.NewRequestWithContext accepts its Method
Requests ==
    {[bodyOK |-> TRUE,  methodOK |-> TRUE],
     [bodyOK |-> FALSE, methodOK |-> TRUE],
     [bodyOK |-> TRUE,  methodOK |-> FALSE]}

\* what a TokenRefresher can return: an error, or a TokenRefreshResult
RefreshOutcomes ==
    {[ok |-> FALSE, AccessToken |-> "", RefreshToken |-> "", ExpiresIn |-> 0]}
    \cup {[ok |-> TRUE, AccessToken |-> "at1", RefreshToken |-> "rt1", ExpiresIn |-> x] :
            x \in {1, 2}}

NoObs ==
    [httpCalls |-> 0, refreshCalls |-> 0, refreshed |-> 0, waits |-> 0,
     opCalls |-> 0, lastOpErr |-> NilErr, firstErr |-> NilErr,
     allRetryable |-> TRUE, log |-> <<>>]

\* the state after construction (NewClient, SetTokensWithRefresh or SetTokens,
\* SetTokenRefresher)
ClientStart(policies, refreshers, refreshTokens) ==
    /\ retryPolicy \in policies
    /\ tokenRefresher \in refreshers
    /\ accessToken = "at0"
    /\ refreshToken \in refreshTokens
    /\ shopID = 7
    /\ tokenExpiry = 0
    /\ pc = [c \in Callers |-> "idle"]
    /\ req = [c \in Callers |-> [bodyOK |-> TRUE, methodOK |-> TRUE]]
    /\ ctxDone = [c \in Callers |-> FALSE]
    /\ attempt = [c \in Callers |-> 0]
    /\ result = [c \in Callers |-> NewResult]
    /\ err = [c \in Callers |-> NilErr]
    /\ snap = [c \in Callers |-> [accessToken |-> "", shopID |-> 0]]
    /\ refreshIn = [c \in Callers |-> [refreshToken |-> "", shopID |-> 0]]
    /\ delay = [c \in Callers |-> 0]
    /\ retErr = [c \in Callers |-> NilErr]
    /\ obs = [c \in Callers |-> NoObs]

InitClient == ClientStart(Policies, BOOLEAN, {"", "rt0"})

\* one client, for the specifications in which no caller runs
InitClientIdle == ClientStart({DefaultRetryPolicy}, {TRUE}, {"rt0"})

-----------------------------------------------------------------------------
(* Client.Do (returns.go:479-513) *)

\* install a control record; when Execute is over, Do returns LastError
SetCtl(c, k) ==
    /\ pc' = [pc EXCEPT ![c] = k.pc]
    /\ attempt' = [attempt EXCEPT ![c] = k.attempt]
    /\ result' = [result EXCEPT ![c] = k.result]
    /\ delay' = [delay EXCEPT ![c] = k.delay]
    /\ retErr' = [retErr EXCEPT ![c] = IF k.pc = "done" THEN k.result.LastError
                                       ELSE NilErr]

\* the observer's record after operation() returned e
ObsOp(o, e, k) ==
    [o EXCEPT !.opCalls = @ + 1,
              !.lastOpErr = e,
              !.allRetryable = @ /\ e.kind = "api" /\ APIErrorIsRetryable(e),
              !.waits = IF k.waited THEN @ + 1 ELSE @,
              !.log = IF k.pc = "request" THEN <<>> ELSE @]

\* Do is called with request rq and a context that is already cancelled or
\* not: NewExecutor, Execute up to the first attempt
DoCall(c, rq, cancelled) ==
    /\ pc[c] \in {"idle", "done"}
    /\ req' = [req EXCEPT ![c] = rq]
    /\ ctxDone' = [ctxDone EXCEPT ![c] = cancelled]
    /\ SetCtl(c, LoopHead(retryPolicy, 1, NewResult, FALSE))
    /\ err' = [err EXCEPT ![c] = NilErr]
    /\ obs' = [obs EXCEPT ![c] = NoObs]
    /\ UNCHANGED <<retryPolicy, tokenRefresher, accessToken, refreshToken,
                   shopID, tokenExpiry, snap, refreshIn>>
    /\ UNCHANGED <<varsErr, varsRL>>

\* doRequest on a request that cannot be built (returns.go:551-565): the
\* tokens are read, then json.Marshal or http.NewRequestWithContext fails;
\* no HTTP call is made, the closure returns the error and Execute runs the
\* rest of the loop body
DoRequestRejected(c, u) ==
    /\ pc[c] = "request"
    /\ ~(req[c].bodyOK /\ req[c].methodOK)
    /\ LET e == IF ~req[c].bodyOK THEN PlainErr(TextMarshalFailed)
                ELSE PlainErr(TextCreateFailed)
           o == [obs[c] EXCEPT !.firstErr = IF obs[c].opCalls = 0 THEN e ELSE @]
           k == AfterOp(retryPolicy, attempt[c], result[c], e, u)
       IN  /\ err' = [err EXCEPT ![c] = e]
           /\ SetCtl(c, k)
           /\ obs' = [obs EXCEPT ![c] = ObsOp(o, e, k)]
    /\ snap' = [snap EXCEPT ![c] = [accessToken |-> accessToken, shopID |-> shopID]]
    /\ UNCHANGED <<retryPolicy, tokenRefresher, accessToken, refreshToken,
                   shopID, tokenExpiry, req, ctxDone, refreshIn>>
    /\ UNCHANGED <<varsErr, varsRL>>

\* the shop ids a client is given
ShopIDs == {7, 8, 9}

\* doRequest as it would be if accessToken and shopID were read in two
\* separate critical sections: the shop id is the one of another instant
DoRequestSendTorn(c) ==
    /\ pc[c] = "request"
    /\ req[c].bodyOK /\ req[c].methodOK
    /\ \E sid \in ShopIDs :
           snap' = [snap EXCEPT ![c] = [accessToken |-> accessToken, shopID |-> sid]]
    /\ pc' = [pc EXCEPT ![c] = "send"]
    /\ obs' = [obs EXCEPT ![c].httpCalls = @ + 1,
                          ![c].log = Append(@, "send")]
    /\ UNCHANGED <<retryPolicy, tokenRefresher, accessToken, refreshToken,
                   shopID, tokenExpiry, req, ctxDone, attempt, result, err,
                   refreshIn, delay, retErr>>
    /\ UNCHANGED <<varsErr, varsRL>>

\* doRequest up to the HTTP call: the tokens are read under the read lock,
\* the request is signed and handed to httpClient.Do
DoRequestSend(c) ==
    /\ pc[c] = "request"
    /\ req[c].bodyOK /\ req[c].methodOK
    /\ snap' = [snap EXCEPT ![c] = [accessToken |-> accessToken, shopID |-> shopID]]
    /\ pc' = [pc EXCEPT ![c] = "send"]
    /\ obs' = [obs EXCEPT ![c].httpCalls = @ + 1,
                          ![c].log = Append(@, "send")]
    /\ UNCHANGED <<retryPolicy, tokenRefresher, accessToken, refreshToken,
                   shopID, tokenExpiry, req, ctxDone, attempt, result, err,
                   refreshIn, delay, retErr>>
    /\ UNCHANGED <<varsErr, varsRL>>

\* the HTTP call returns r; doRequest classifies it; the closure either goes
\* on to refresh the token or returns, and Execute runs the rest of the loop
\* body.  A request whose context is cancelled fails in transport.
DoRequestReturn(c, r, u) ==
    /\ pc[c] = "send"
    /\ ctxDone[c] => r.transport \in {"fail", "readfail"}
    /\ LET e == doRequestResult(r)
           o == [obs[c] EXCEPT !.firstErr = IF obs[c].opCalls = 0 THEN e ELSE @]
       IN  /\ err' = [err EXCEPT ![c] = e]
           /\ IF WantsRefresh(e)
              THEN /\ pc' = [pc EXCEPT ![c] = "refresh"]
                   /\ obs' = [obs EXCEPT ![c] = o]
                   /\ UNCHANGED <<attempt, result, delay, retErr>>
              ELSE LET k == AfterOp(retryPolicy, attempt[c], result[c], e, u)
                   IN  /\ SetCtl(c, k)
                       /\ obs' = [obs EXCEPT ![c] = ObsOp(o, e, k)]
    /\ UNCHANGED <<retryPolicy, tokenRefresher, accessToken, refreshToken,
                   shopID, tokenExpiry, req, ctxDone, snap, refreshIn>>
    /\ UNCHANGED <<varsErr, varsRL>>

\* tryRefreshToken, the test of the refresher (returns.go:639-641), a read
\* of c.tokenRefresher outside any lock: without a refresher it fails at
\* once and the closure returns the error of doRequest
TryRefreshCheck(c, u) ==
    /\ pc[c] = "refresh"
    /\ IF tokenRefresher
       THEN /\ pc' = [pc EXCEPT ![c] = "refreshread"]
            /\ UNCHANGED <<attempt, result, delay, retErr, obs>>
       ELSE LET k == AfterOp(retryPolicy, attempt[c], result[c], err[c], u)
            IN  /\ SetCtl(c, k)
                /\ obs' = [obs EXCEPT ![c] = ObsOp(obs[c], err[c], k)]
    /\ UNCHANGED <<retryPolicy, tokenRefresher, accessToken, refreshToken,
                   shopID, tokenExpiry, req, ctxDone, err, snap, refreshIn>>
    /\ UNCHANGED <<varsErr, varsRL>>

\* tryRefreshToken, the read of refreshToken and shopID into locals inside
\* one section of tokenMu (returns.go:643-646)
TryRefreshRead(c) ==
    /\ pc[c] = "refreshread"
    /\ refreshIn' = [refreshIn EXCEPT ![c] =
                        [refreshToken |-> refreshToken, shopID |-> shopID]]
    /\ pc' = [pc EXCEPT ![c] = "refreshcall"]
    /\ UNCHANGED <<retryPolicy, tokenRefresher, accessToken, refreshToken,
                   shopID, tokenExpiry, req, ctxDone, attempt, result, err,
                   snap, delay, retErr, obs>>
    /\ UNCHANGED <<varsErr, varsRL>>

\* tryRefreshToken as it would be if a refresh in flight for the client
\* held back the other callers
TryRefreshStartSingleFlight(c, u) ==
    /\ pc[c] = "refreshcall"
    /\ \A other \in Callers \ {c} : pc[other] # "refreshing"
    /\ IF refreshIn[c].refreshToken = ""
       THEN LET k == AfterOp(retryPolicy, attempt[c], result[c], err[c], u)
            IN  /\ SetCtl(c, k)
                /\ obs' = [obs EXCEPT ![c] = ObsOp(obs[c], err[c], k)]
       ELSE IF ~tokenRefresher
       THEN /\ pc' = [pc EXCEPT ![c] = "panicked"]
            /\ UNCHANGED <<attempt, result, delay, retErr, obs>>
       ELSE /\ pc' = [pc EXCEPT ![c] = "refreshing"]
            /\ obs' = [obs EXCEPT ![c].refreshCalls = @ + 1,
                                  ![c].log = Append(@, "refresh")]
            /\ UNCHANGED <<attempt, result, delay, retErr>>
    /\ UNCHANGED <<retryPolicy, tokenRefresher, accessToken, refreshToken,
                   shopID, tokenExpiry, req, ctxDone, err, snap, refreshIn>>
    /\ UNCHANGED <<varsErr, varsRL>>

\* tryRefreshToken after the unlock (returns.go:648-652): when the refresh
\* token it read is empty it fails and the closure returns the error of
\* doRequest; otherwise c.tokenRefresher is read a second time, again
\* outside any lock, and its RefreshToken called with the values read under
\* the lock, whatever the setters have stored since.  When
\* SetTokenRefresher(nil) came in after the first read the call is a method
\* call on a nil interface, which panics.
TryRefreshStart(c, u) ==
    /\ pc[c] = "refreshcall"
    /\ IF refreshIn[c].refreshToken = ""
       THEN LET k == AfterOp(retryPolicy, attempt[c], result[c], err[c], u)
            IN  /\ SetCtl(c, k)
                /\ obs' = [obs EXCEPT ![c] = ObsOp(obs[c], err[c], k)]
       ELSE IF ~tokenRefresher
       THEN /\ pc' = [pc EXCEPT ![c] = "panicked"]
            /\ UNCHANGED <<attempt, result, delay, retErr, obs>>
       ELSE /\ pc' = [pc EXCEPT ![c] = "refreshing"]
            /\ obs' = [obs EXCEPT ![c].refreshCalls = @ + 1,
                                  ![c].log = Append(@, "refresh")]
            /\ UNCHANGED <<attempt, result, delay, retErr>>
    /\ UNCHANGED <<retryPolicy, tokenRefresher, accessToken, refreshToken,
                   shopID, tokenExpiry, req, ctxDone, err, snap, refreshIn>>
    /\ UNCHANGED <<varsErr, varsRL>>

\* the return of the refresher as it would be if only the access token were
\* written in this critical section
RefresherReturnTorn(c, out, u) ==
    /\ pc[c] = "refreshing"
    /\ LET e == IF out.ok THEN RefreshedPlaceholder ELSE err[c]
           k == AfterOp(retryPolicy, attempt[c], result[c], e, u)
           o == [obs[c] EXCEPT !.refreshed = IF out.ok THEN @ + 1 ELSE @]
       IN  /\ SetCtl(c, k)
           /\ obs' = [obs EXCEPT ![c] = ObsOp(o, e, k)]
           /\ IF out.ok
              THEN /\ accessToken' = out.AccessToken
                   /\ UNCHANGED <<refreshToken, tokenExpiry>>
              ELSE UNCHANGED <<accessToken, refreshToken, tokenExpiry>>
    /\ UNCHANGED <<retryPolicy, tokenRefresher, shopID, req, ctxDone, err, snap,
                   refreshIn>>
    /\ UNCHANGED <<varsErr, varsRL>>

\* the refresher returns (returns.go:652-670): on an error the closure
\* returns the error of doRequest; on success the tokens are replaced under
\* the write lock and the closure returns the placeholder error
RefresherReturn(c, out, u) ==
    /\ pc[c] = "refreshing"
    /\ LET e == IF out.ok THEN RefreshedPlaceholder ELSE err[c]
           k == AfterOp(retryPolicy, attempt[c], result[c], e, u)
           o == [obs[c] EXCEPT !.refreshed = IF out.ok THEN @ + 1 ELSE @]
       IN  /\ SetCtl(c, k)
           /\ obs' = [obs EXCEPT ![c] = ObsOp(o, e, k)]
           /\ IF out.ok
              THEN /\ accessToken' = out.AccessToken
                   /\ refreshToken' = out.RefreshToken
                   /\ tokenExpiry' = now + out.ExpiresIn * TicksPerSecond
              ELSE UNCHANGED <<accessToken, refreshToken, tokenExpiry>>
    /\ UNCHANGED <<retryPolicy, tokenRefresher, shopID, req, ctxDone, err, snap,
                   refreshIn>>
    /\ UNCHANGED <<varsErr, varsRL>>

\* the timer WaitForRetry created (retry.go:126) fires: timer.C becomes
\* ready, whether or not the goroutine has reached the select
BackoffFire(c) ==
    /\ pc[c] = "backoff"
    /\ pc' = [pc EXCEPT ![c] = "fired"]
    /\ UNCHANGED <<retryPolicy, tokenRefresher, accessToken, refreshToken,
                   shopID, tokenExpiry, req, ctxDone, attempt, result, err,
                   snap, refreshIn, delay, retErr, obs>>
    /\ UNCHANGED <<varsErr, varsRL>>

\* WaitForRetry: the select takes <-timer.C (retry.go:132-133), the loop
\* goes on with the next attempt.  The select has no order of preference:
\* with the context done as well, this case can still be the one taken.
BackoffTimer(c) ==
    /\ pc[c] = "fired"
    /\ SetCtl(c, LoopHead(retryPolicy, attempt[c] + 1, result[c], FALSE))
    /\ obs' = [obs EXCEPT ![c].log = <<>>]
    /\ UNCHANGED <<retryPolicy, tokenRefresher, accessToken, refreshToken,
                   shopID, tokenExpiry, req, ctxDone, err, snap, refreshIn>>
    /\ UNCHANGED <<varsErr, varsRL>>

\* WaitForRetry: the select takes <-ctx.Done() (retry.go:130-131), whether
\* or not the timer has fired too; LastError becomes ctx.Err()
\* (retry.go:175-178)
BackoffCancelled(c) ==
    /\ pc[c] \in {"backoff", "fired"}
    /\ ctxDone[c]
    /\ SetCtl(c, Ctl("done", attempt[c], [result[c] EXCEPT !.LastError = CtxErr],
                     FALSE, 0))
    /\ UNCHANGED <<retryPolicy, tokenRefresher, accessToken, refreshToken,
                   shopID, tokenExpiry, req, ctxDone, err, snap, refreshIn, obs>>
    /\ UNCHANGED <<varsErr, varsRL>>

\* the caller cancels the context of a running call
Cancel(c) ==
    /\ pc[c] \notin {"idle", "done"}
    /\ ~ctxDone[c]
    /\ ctxDone' = [ctxDone EXCEPT ![c] = TRUE]
    /\ UNCHANGED <<retryPolicy, tokenRefresher, accessToken, refreshToken,
                   shopID, tokenExpiry, pc, req, attempt, result, err, snap,
                   refreshIn, delay, retErr, obs>>
    /\ UNCHANGED <<varsErr, varsRL>>

\* SetTokens(accessToken, shopID): both fields under the write lock
SetTokens(at, sid) ==
    /\ accessToken' = at
    /\ shopID' = sid
    /\ UNCHANGED <<retryPolicy, tokenRefresher, refreshToken, tokenExpiry, pc,
                   req, ctxDone, attempt, result, err, snap, refreshIn, delay,
                   retErr, obs>>
    /\ UNCHANGED <<varsErr, varsRL>>

\* SetTokensWithRefresh(accessToken, refreshToken, shopID, expiresAt): the
\* four fields under the write lock
SetTokensWithRefresh(at, rt, sid, expiresAt) ==
    /\ accessToken' = at
    /\ refreshToken' = rt
    /\ shopID' = sid
    /\ tokenExpiry' = expiresAt
    /\ UNCHANGED <<retryPolicy, tokenRefresher, pc, req, ctxDone, attempt,
                   result, err, snap, refreshIn, delay, retErr, obs>>
    /\ UNCHANGED <<varsErr, varsRL>>

\* SetTokenRefresher(refresher) (returns.go:444-446): c.tokenRefresher is
\* written without a lock; r says whether the new refresher is non-nil
SetTokenRefresher(r) ==
    /\ tokenRefresher' = r
    /\ UNCHANGED <<retryPolicy, accessToken, refreshToken, shopID, tokenExpiry,
                   pc, req, ctxDone, attempt, result, err, snap, refreshIn,
                   delay, retErr, obs>>
    /\ UNCHANGED <<varsErr, varsRL>>

\* the goroutine that calls Do installs or removes the refresher between
\* two of its calls
SetTokenRefresherBetweenCalls(r) ==
    /\ \A c \in SeqCallers : pc[c] \in {"idle", "done"}
    /\ SetTokenRefresher(r)

NextClient ==
    \/ \E c \in SeqCallers, rq \in Requests, cancelled \in BOOLEAN :
           DoCall(c, rq, cancelled)
    \/ \E c \in SeqCallers, u \in JitterDraws : DoRequestRejected(c, u)
    \/ \E c \in SeqCallers : DoRequestSend(c)
    \/ \E c \in SeqCallers, r \in Responses, u \in JitterDraws : DoRequestReturn(c, r, u)
    \/ \E c \in SeqCallers, u \in JitterDraws : TryRefreshCheck(c, u)
    \/ \E c \in SeqCallers : TryRefreshRead(c)
    \/ \E c \in SeqCallers, u \in JitterDraws : TryRefreshStart(c, u)
    \/ \E c \in SeqCallers, out \in RefreshOutcomes, u \in JitterDraws :
           RefresherReturn(c, out, u)
    \/ \E c \in SeqCallers : BackoffFire(c)
    \/ \E c \in SeqCallers : BackoffTimer(c)
    \/ \E c \in SeqCallers : BackoffCancelled(c)
    \/ \E c \in SeqCallers : Cancel(c)
    \/ \E r \in BOOLEAN : SetTokenRefresherBetweenCalls(r)

\* Inputs of the concurrent specification: a policy of two attempts without
\* delay, a request that can be built, two answers of the server
ConcPolicy == WithMaxAttempts(ZeroDelayPolicy, 2)

ConcRequest == [bodyOK |-> TRUE, methodOK |-> TRUE]

ConcResponses ==
    {Response("ok", 200, Envelope(TRUE, "", MsgEmpty, ""), TRUE),
     Response("ok", 200, Envelope(TRUE, CodeAuthError, MsgAccessTokenInvalid, "r1"), TRUE)}

ConcRefreshOutcomes == {out \in RefreshOutcomes : out.ExpiresIn <= 1}

InitConc == ClientStart({ConcPolicy}, {TRUE}, {"rt0"})

\* the one call of Do a caller of the concurrent specification makes
DoFirstCall(c) ==
    /\ pc[c] = "idle"
    /\ DoCall(c, ConcRequest, FALSE)

\* callers of Do on one Client, one call each, interleaved with each other
\* and with the setters of the tokens
NextConc ==
    \/ \E c \in Callers : DoFirstCall(c)
    \/ \E c \in Callers : DoRequestSend(c)
    \/ \E c \in Callers, r \in ConcResponses : DoRequestReturn(c, r, 0)
    \/ \E c \in Callers : TryRefreshCheck(c, 0)
    \/ \E c \in Callers : TryRefreshRead(c)
    \/ \E c \in Callers : TryRefreshStart(c, 0)
    \/ \E c \in Callers, out \in ConcRefreshOutcomes : RefresherReturn(c, out, 0)
    \/ SetTokens("at2", 8)
    \/ \E rt \in {"", "rt3"} : SetTokensWithRefresh("at3", rt, 9, 5)
    \/ \E r \in BOOLEAN : SetTokenRefresher(r)

-----------------------------------------------------------------------------
(* Specifications *)

\* the error taxonomy and ShouldRetry applied to drawn inputs
InitSpecErr == InitErr /\ InitRL /\ InitClientIdle

SpecErr == InitSpecErr /\ [][NextErr]_vars

\* DelayForAttempt applied to drawn policies
InitSpecDelay == InitDelay /\ InitRL /\ InitClientIdle

SpecDelay == InitSpecDelay /\ [][NextDelay]_vars

\* the classification of doRequest applied to drawn responses
InitSpecResp == InitResp /\ InitRL /\ InitClientIdle

SpecResp == InitSpecResp /\ [][NextResp]_vars

\* the Signature functions and the webhook handler applied to drawn inputs
InitSpecSig == InitSig /\ InitRL /\ InitClientIdle

SpecSig == InitSpecSig /\ [][NextSig]_vars

\* one TokenManager under Start, Stop and the cancellation of its context
InitSpecTM == InitTM /\ InitRL /\ InitClientIdle

SpecTM == InitSpecTM /\ [][NextTM]_vars

\* one product-push job from its creation to the end of its processing
InitSpecJob == InitJob /\ InitRL /\ InitClientIdle

SpecJob == InitSpecJob /\ [][NextJob]_vars

\* policies, their builder methods and an executor built from one of them
InitSpecPolicy == InitPolicy /\ InitRL /\ InitClientIdle

SpecPolicy == InitSpecPolicy /\ [][NextPolicy]_vars

\* the rate limiter under TryAcquire and the passage of time
InitSpecRL == InitErrIdle /\ InitRL /\ InitClientIdle

SpecRL == InitSpecRL /\ [][NextRL]_vars

\* the rate limiter under TryAcquire, a concurrent GetStatus and the passage
\* of time
InitSpecStatus == InitErrIdle /\ InitRL /\ InitClientIdle

SpecStatus == InitSpecStatus /\ [][NextStatus]_vars

\* the rate limiter under concurrent TryAcquire and Wait calls at one instant
InitSpecBucket == InitErrIdle /\ InitRL /\ InitClientIdle

SpecBucket == InitSpecBucket /\ [][NextBucket]_vars

\* the rate limiter under Wait, cancellation and the passage of time
InitSpecWait == InitErrIdle /\ InitRL /\ InitClientIdle

SpecWait == InitSpecWait /\ [][NextWait]_vars

\* one caller of Client.Do at a time
Init == InitErrIdle /\ InitRL /\ InitClient

Spec == Init /\ [][NextClient]_vars

\* two callers of Client.Do and the setters of the tokens, interleaved
InitSpecConc == InitErrIdle /\ InitRL /\ InitConc

SpecConc == InitSpecConc /\ [][NextConc]_vars

-----------------------------------------------------------------------------
(* Properties of the client and the executor (specification Spec) *)

N == retryPolicy.maxAttempts

\* the first attempt of the call of c failed with error_auth and the message
\* "access_token invalid" on a status below 500, a refresher is configured,
\* a refresh succeeded, maxAttempts >= 2 and the context is not cancelled
C1Scenario(c) ==
    /\ obs[c].firstErr.kind = "api"
    /\ obs[c].firstErr.code = "error_auth"
    /\ obs[c].firstErr.msg = MsgAccessTokenInvalid
    /\ obs[c].firstErr.status < 500
    /\ tokenRefresher
    /\ obs[c].refreshed >= 1
    /\ N >= 2
    /\ ~ctxDone[c]

\* C1 (as claimed): a call of Do whose first attempt fails with error_auth
\* "access_token invalid" and whose refresh succeeds does not end before a
\* second HTTP attempt, signed with the new access token, has been made; if
\* that second attempt succeeds Do returns nil after exactly 2 HTTP calls
\* and 1 refresher call.
C1_RefreshAndRetry ==
    \A c \in Callers :
        (pc[c] = "done" /\ C1Scenario(c)) =>
            /\ obs[c].httpCalls >= 2
            /\ (obs[c].httpCalls = 2 => snap[c].accessToken = accessToken)
            /\ (obs[c].httpCalls = 2 /\ obs[c].lastOpErr = NilErr =>
                    retErr[c] = NilErr /\ obs[c].refreshCalls = 1)

\* C2: when every call of the operation returned a retryable APIError and
\* the context is not cancelled, Execute with maxAttempts = N >= 1 ends
\* after exactly N calls of the operation and N-1 waits, with Attempts = N
\* and LastError the error of the last call; and in every call of Do an
\* attempt in progress has been preceded by exactly Attempts-1 waits (a wait
\* lies between two attempts, never after the last one).
C2_RetryBound ==
    \A c \in Callers :
        /\ (pc[c] = "done" /\ N >= 1 /\ obs[c].allRetryable /\ ~ctxDone[c]) =>
               /\ obs[c].opCalls = N
               /\ obs[c].waits = N - 1
               /\ result[c].Attempts = N
               /\ result[c].LastError = obs[c].lastOpErr
               /\ obs[c].lastOpErr.kind = "api"
        /\ (pc[c] \in {"request", "send", "refresh", "refreshread", "refreshcall",
                      "refreshing"}) =>
               obs[c].waits = result[c].Attempts - 1

\* C2 witness: a call with maxAttempts = 3 ended after three retryable
\* failures and two waits
C2_Witness ==
    \E c \in Callers :
        /\ pc[c] = "done" /\ N = 3 /\ obs[c].allRetryable /\ ~ctxDone[c]
        /\ obs[c].opCalls = 3 /\ obs[c].waits = 2
        /\ result[c].LastError.status = StatusTooManyRequests
        /\ obs[c].firstErr.status = StatusServiceUnavailable

\* C3 (as claimed): when the last attempt of a finished call succeeded after
\* earlier attempts had failed, Do returned nil and Execute stopped at that
\* attempt; and Do returned a non-nil error only if the last attempt failed
\* or the context was cancelled.
C3_SuccessAfterRetry ==
    \A c \in Callers :
        pc[c] = "done" =>
            /\ (obs[c].opCalls >= 2 /\ obs[c].lastOpErr = NilErr) =>
                   (retErr[c] = NilErr /\ result[c].Attempts = obs[c].opCalls)
            /\ retErr[c] # NilErr => (obs[c].lastOpErr # NilErr \/ ctxDone[c])

\* C6 (as claimed): every HTTP send of an attempt is preceded, within that
\* attempt, by a RateLimiter.Wait call that returned nil.
C6_RateLimitedSend ==
    \A c \in Callers :
        \A i \in 1..Len(obs[c].log) :
            obs[c].log[i] = "send" =>
                \E j \in 1..(i - 1) : obs[c].log[j] = "ratelimit.wait"

\* an APIError of category validation, not_found or authentication whose
\* status is not 429, 503 or >= 500
NonRetryableClass(e) ==
    /\ e.kind = "api"
    /\ Category(e) \in {"validation", "not_found", "authentication"}
    /\ e.status \notin {429, 503}
    /\ e.status < 500

\* C9: once the operation returned a non-retryable APIError (validation,
\* not_found or authentication category, status not 429/503/5xx), Execute is
\* over: that call was the last one, no wait followed it, and the error is
\* LastError; when it was the first attempt, Attempts = 1 and no wait was
\* made at all, whatever maxAttempts >= 1 is.
C9_NonRetryableStops ==
    \A c \in Callers :
        (obs[c].opCalls >= 1 /\ N >= 1 /\ NonRetryableClass(obs[c].lastOpErr)) =>
            /\ pc[c] = "done"
            /\ result[c].LastError = obs[c].lastOpErr
            /\ retErr[c] = obs[c].lastOpErr
            /\ result[c].Attempts = obs[c].opCalls
            /\ obs[c].waits = obs[c].opCalls - 1

\* C9 witness: error_param on HTTP 400 at the first attempt of a policy with
\* maxAttempts = 3
C9_Witness ==
    \E c \in Callers :
        /\ pc[c] = "done" /\ N = 3
        /\ obs[c].lastOpErr.kind = "api"
        /\ obs[c].lastOpErr.code = "error_param"
        /\ obs[c].lastOpErr.status = 400
        /\ obs[c].opCalls = 1 /\ obs[c].waits = 0 /\ result[c].Attempts = 1

\* C10 (as claimed): a call that is not cancelled and whose last attempt
\* failed in transport (httpClient.Do or io.ReadAll failed) ended only after
\* maxAttempts attempts, as it would after a server error.
C10_TransportRetried ==
    \A c \in Callers :
        (/\ pc[c] = "done" /\ ~ctxDone[c] /\ N >= 1
         /\ obs[c].lastOpErr \in {PlainErr(TextRequestFailed), PlainErr(TextReadFailed)}) =>
            (result[c].Attempts = N /\ obs[c].httpCalls = N)

\* C11 (as claimed): when the context is done while Execute waits between
\* two attempts, the step that ends the wait ends the call: the operation is
\* not invoked again (no operation call, no HTTP call), LastError and the
\* error Do returns are the context's error, and Attempts is the number of
\* attempts made before the wait.
C11_CancelDuringBackoff ==
    [][\A c \in Callers :
         (/\ pc[c] \in {"backoff", "fired"} /\ ctxDone[c]
          /\ pc'[c] \notin {"backoff", "fired"}) =>
             /\ pc'[c] = "done"
             /\ obs'[c].opCalls = obs[c].opCalls
             /\ obs'[c].httpCalls = obs[c].httpCalls
             /\ result'[c].LastError = CtxErr
             /\ retErr'[c] = CtxErr
             /\ result'[c].Attempts = obs[c].opCalls
             /\ result'[c].Attempts = attempt[c]]_vars

\* C12 (as claimed): once the context of a running call is done, the call
\* makes no further HTTP attempt, and when it ends Do returns the context's
\* error.
C12_CancelAnywhere ==
    [][\A c \in Callers :
         (ctxDone[c] /\ pc[c] \notin {"idle", "done", "send"}) =>
             /\ obs'[c].httpCalls = obs[c].httpCalls
             /\ (pc'[c] = "done" => retErr'[c] = CtxErr)]_vars

\* C14 (as claimed): within one call of Do the refresher is invoked at most
\* once.
C14_OneRefreshPerCall ==
    \A c \in Callers : obs[c].refreshCalls <= 1

\* the step of caller c is a refresh attempt that fails: tryRefreshToken
\* returns at once without calling the refresher, or the refresher returns
\* an error
RefreshFails(c) ==
    \/ pc[c] = "refresh" /\ pc'[c] \notin {"refresh", "refreshread"}
    \/ pc[c] = "refreshcall"
          /\ pc'[c] \notin {"refreshcall", "refreshing", "panicked"}
    \/ pc[c] = "refreshing" /\ pc'[c] # "refreshing"
          /\ obs'[c].refreshed = obs[c].refreshed

\* C15 (as claimed): a failed refresh attempt ends the call: no further
\* attempt follows and Do returns the error of the attempt that asked for
\* the refresh.
C15_FailedRefreshEnds ==
    [][\A c \in Callers :
         RefreshFails(c) => (pc'[c] = "done" /\ retErr'[c] = err[c])]_vars

\* C16 (as claimed): tryRefreshToken is entered only for an error_auth
\* APIError whose message contains "token expired", "invalid token" or
\* "access_token invalid".
C16_RefreshTrigger ==
    \A c \in Callers :
        pc[c] \in {"refresh", "refreshread", "refreshcall", "refreshing"} =>
            /\ err[c].kind = "api"
            /\ err[c].code = "error_auth"
            /\ containsAny(err[c].msg, TokenExpirySubstrings)

\* C20 (as claimed): without a refresher or without a stored refresh token
\* tryRefreshToken fails without calling a refresher and without touching
\* the tokens, and the call makes no further attempt.
C20_RefreshFailsFast ==
    [][\A c \in Callers :
         (\/ pc[c] = "refresh" /\ pc'[c] # "refresh" /\ ~tokenRefresher
          \/ pc[c] = "refreshcall" /\ pc'[c] # "refreshcall"
                /\ refreshIn[c].refreshToken = "") =>
             /\ obs'[c].refreshCalls = obs[c].refreshCalls
             /\ <<accessToken, refreshToken, tokenExpiry, shopID>>' =
                    <<accessToken, refreshToken, tokenExpiry, shopID>>
             /\ pc'[c] = "done"]_vars

\* C21 (as claimed): a successful refresh never leaves the client with an
\* earlier tokenExpiry than it had before.
C21_ExpiryMonotone ==
    [][\A c \in Callers :
         obs'[c].refreshed = obs[c].refreshed + 1 => tokenExpiry' >= tokenExpiry]_vars

\* C27 (as claimed): the error Do returns is nil, an APIError or the
\* context's error, never a plain formatted-string error.
C27_StructuredErrorsOnly ==
    \A c \in Callers :
        pc[c] = "done" => retErr[c].kind \in {"nil", "api", "ctx"}

-----------------------------------------------------------------------------
(* Properties of the shared credentials (specification SpecConc) *)

\* C17: in every step in which doRequest of a caller reads the credentials,
\* the (accessToken, shopID) pair it goes on to sign and address the request
\* with is the pair stored in the client at the instant of that step,
\* whatever the other callers, the setters and the refreshes do around it.
C17_SnapshotNotTorn ==
    [][\A c \in Callers :
         (pc[c] = "request" /\ pc'[c] = "send") =>
             snap'[c] = [accessToken |-> accessToken, shopID |-> shopID]]_vars

\* C17 witness: a request in flight was signed with a pair that a setter
\* has since replaced, while the other caller's request carries the new pair
C17_Witness ==
    \E c, other \in Callers :
        /\ pc[c] = "send" /\ pc[other] = "send"
        /\ snap[c] = [accessToken |-> "at0", shopID |-> 7]
        /\ snap[other] = [accessToken |-> "at2", shopID |-> 8]
        /\ accessToken = "at3" /\ shopID = 9

\* C18: refreshes of one client are not deduplicated: while one caller's
\* refresher call is in flight, a second caller that observed a token error
\* is not held back: it can read the refresh token the client holds at that
\* moment (the old one, as long as the first refresh has not returned), and
\* having read a refresh token it can start its own refresher call with the
\* value it read.
C18_RefreshNotDeduplicated ==
    \A c, other \in Callers :
        (c # other /\ pc[c] = "refreshing") =>
            /\ pc[other] = "refreshread" =>
                   ENABLED (/\ TryRefreshRead(other)
                            /\ pc'[other] = "refreshcall"
                            /\ pc'[c] = "refreshing"
                            /\ refreshIn'[other].refreshToken = refreshToken)
            /\ (/\ pc[other] = "refreshcall"
                /\ tokenRefresher /\ refreshIn[other].refreshToken # "") =>
                   ENABLED (/\ TryRefreshStart(other, 0)
                            /\ pc'[other] = "refreshing"
                            /\ pc'[c] = "refreshing"
                            /\ refreshIn'[other] = refreshIn[other]
                            /\ obs'[other].refreshCalls =
                                   obs[other].refreshCalls + 1)

\* C18 witness: two refresher calls of one client in flight, both issued
\* with the old refresh token
C18_Witness ==
    /\ \A c \in Callers :
           /\ pc[c] = "refreshing"
           /\ refreshIn[c] = [refreshToken |-> "rt0", shopID |-> 7]
           /\ obs[c].refreshCalls = 1
    /\ refreshToken = "rt0"

\* C19: the return of a refresher either installs accessToken, refreshToken
\* and tokenExpiry of one TokenRefreshResult in a single step and leaves
\* shopID alone, or (on an error) leaves all four fields as they were; and
\* in no state does the client hold the access token of a refresh without
\* the refresh token and the expiry of that refresh.
C19_RefreshSwap ==
    /\ [][\A c \in Callers :
            (pc[c] = "refreshing" /\ pc'[c] # "refreshing") =>
                IF obs'[c].refreshed = obs[c].refreshed + 1
                THEN /\ \E out \in RefreshOutcomes :
                          /\ out.ok
                          /\ accessToken' = out.AccessToken
                          /\ refreshToken' = out.RefreshToken
                          /\ tokenExpiry' = now + out.ExpiresIn * TicksPerSecond
                     /\ shopID' = shopID
                ELSE <<accessToken, refreshToken, tokenExpiry, shopID>>' =
                         <<accessToken, refreshToken, tokenExpiry, shopID>>]_vars
    /\ [](\A out \in RefreshOutcomes :
             (out.ok /\ accessToken = out.AccessToken) =>
                 /\ refreshToken = out.RefreshToken
                 /\ \E o2 \in RefreshOutcomes :
                        o2.ok /\ tokenExpiry = now + o2.ExpiresIn * TicksPerSecond)

\* C19 witness: a refresh replaced the tokens a setter had installed, the
\* shop id of the setter is still in place, and the other caller's refresher
\* then failed
C19_Witness ==
    \E c, other \in Callers :
        /\ obs[c].refreshed = 1 /\ pc[c] = "done"
        /\ obs[other].refreshCalls = 1 /\ obs[other].refreshed = 0
        /\ pc[other] = "done"
        /\ refreshIn[c] = [refreshToken |-> "rt3", shopID |-> 9]
        /\ accessToken = "at1" /\ refreshToken = "rt1" /\ shopID = 9
        /\ tokenExpiry = TicksPerSecond

-----------------------------------------------------------------------------
(* Properties of the token bucket (specifications SpecStatus and SpecRL) *)

\* C4: the balance of every bucket is within 0..maxTokens in every state,
\* and so is every balance GetStatus reports, in the map it is building
\* and in the map it returned.
C4_BucketBound ==
    /\ \A k \in DOMAIN buckets :
           0 <= buckets[k].tokens /\ buckets[k].tokens <= buckets[k].maxTokens
    /\ \A k \in DOMAIN reader.status :
           /\ 0 <= reader.status[k].AvailableTokens
           /\ reader.status[k].AvailableTokens <= reader.status[k].MaxTokens
    /\ ret.op = "status" =>
           \A k \in DOMAIN ret.map :
               /\ 0 <= ret.map[k].AvailableTokens
               /\ ret.map[k].AvailableTokens <= ret.map[k].MaxTokens

\* C4 witness: a bucket that was emptied, then refilled over an idle period
\* long enough to reach the cap, and is reported by GetStatus
C4_Witness ==
    /\ ret.op = "status"
    /\ \E k \in DOMAIN ret.map :
           /\ buckets[k].calls >= 3
           /\ buckets[k].lastRefill > buckets[k].created
           /\ ret.map[k].AvailableTokens = ret.map[k].MaxTokens - TicksPerSecond

\* the step of take() on bucket b at the current time, as claimed: b2 is the
\* bucket after the call and w the wait returned (ns)
TakeStepClaim(b, b2, w) ==
    LET grown    == b.tokens + (now - b.lastRefill) * b.refillRate
        refilled == IF grown > b.maxTokens THEN b.maxTokens ELSE grown
        deficit  == TicksPerSecond - refilled
        D        == TicksPerSecond * b.refillRate
        Q        == NsPerSecond \div D
        R        == NsPerSecond % D
    IN  /\ b2.lastRefill = now
        /\ b2.maxTokens = b.maxTokens /\ b2.refillRate = b.refillRate
        /\ IF refilled >= TicksPerSecond
           THEN b2.tokens = refilled - TicksPerSecond /\ w = 0
           ELSE /\ b2.tokens = refilled
                \* w = floor(deficit / TicksPerSecond / refillRate * 10^9)
                /\ (w - deficit * Q) * D <= deficit * R
                /\ deficit * R < (w - deficit * Q + 1) * D

\* from a full bucket with burst B and rate R, while no time has elapsed:
\* the first B calls returned zero and left B - calls tokens, call B+1
\* returned 1/R seconds
FullBucketScenario ==
    \A k \in DOMAIN buckets :
        LET b == buckets[k]
            B == b.maxTokens \div TicksPerSecond
        IN  (b.lastRefill = b.created /\ ret.op = "take" /\ ret.key = k) =>
                /\ b.calls <= B => (ret.wait = 0 /\ b.tokens = (B - b.calls) * TicksPerSecond)
                /\ b.calls = B + 1 =>
                       (ret.wait * b.refillRate <= NsPerSecond
                        /\ NsPerSecond < (ret.wait + 1) * b.refillRate)

\* C5: every take() on an existing bucket refills to
\* min(maxTokens, tokens + elapsed * refillRate), sets lastRefill to now and
\* then either takes exactly one token and returns 0, or leaves the balance
\* and returns (1 - tokens) / refillRate; and from a full bucket with no
\* time elapsing the first B calls return 0 and call B+1 returns 1/R s.
C5_TakeStep ==
    /\ [][\A k \in DOMAIN buckets :
            buckets'[k].calls = buckets[k].calls + 1 =>
                (ret'.op = "take" /\ ret'.key = k
                 /\ TakeStepClaim(buckets[k], buckets'[k], ret'.wait))]_vars
    /\ []FullBucketScenario

\* C5 witness: call B+1 on a bucket with no time elapsed returned a positive
\* wait, and another bucket holds a fractional balance after a partial refill
C5_Witness ==
    /\ ret.op = "take"
    /\ ret.wait > 0
    /\ buckets[ret.key].lastRefill = buckets[ret.key].created
    /\ buckets[ret.key].calls = buckets[ret.key].maxTokens \div TicksPerSecond + 1
    /\ \E k \in DOMAIN buckets :
           /\ buckets[k].lastRefill > buckets[k].created
           /\ buckets[k].tokens % TicksPerSecond # 0

-----------------------------------------------------------------------------
(* Properties of getBucket (specifications SpecBucket and SpecRL) *)

\* C22: under any interleaving of concurrent callers, at most one bucket is
\* ever stored for a key, every caller that left getBucket holds the bucket
\* that is in the map, and a bucket in the map is never replaced or reset:
\* it stays the bucket created at its creation time, its count of take()
\* calls never goes down, and it changes only by a take() call.
C22_BucketCreatedOnce ==
    /\ [](\A k \in DOMAIN made : made[k] = 1 /\ k \in DOMAIN buckets)
    /\ [](\A g \in Getters :
             getter[g].pc = "take" =>
                 /\ getter[g].key \in DOMAIN buckets
                 /\ getter[g].held = made[getter[g].key])
    /\ [][\A k \in DOMAIN buckets :
            /\ k \in DOMAIN buckets'
            /\ buckets'[k].created = buckets[k].created
            /\ buckets'[k].maxTokens = buckets[k].maxTokens
            /\ buckets'[k].refillRate = buckets[k].refillRate
            /\ buckets'[k].calls >= buckets[k].calls
            /\ buckets'[k].calls = buckets[k].calls => buckets'[k] = buckets[k]]_vars

\* C22 witness: concurrent first use of one key: a goroutine that missed
\* the bucket in the read-locked lookup left the write-locked part holding
\* the only bucket ever stored, from which the other goroutine has already
\* taken a token
C22_Witness ==
    \E g, h \in Getters :
        /\ g # h
        /\ getter[g].pc = "idle"
        /\ getter[h].pc = "take" /\ getter[h].viaLock
        /\ ret.op = "take" /\ ret.key = getter[h].key
        /\ made[getter[h].key] = 1
        /\ buckets[getter[h].key].calls = 1
        /\ buckets[getter[h].key].tokens < buckets[getter[h].key].maxTokens
        /\ DOMAIN buckets = {getter[h].key}

\* the configured prefixes of a path, and the longest of them
MatchingPrefixes(path) ==
    {l.prefix : l \in {m \in Config.PathLimits : HasPrefix(path, m.prefix)}}

LongestPrefix(path) ==
    CHOOSE k \in MatchingPrefixes(path) :
        \A other \in MatchingPrefixes(path) : Len(other) <= Len(k)

\* C23 (as claimed): a call for a path is served by the bucket keyed by the
\* longest configured prefix of the path, created with the RPS and burst of
\* that prefix; a path without a configured prefix is served by the
\* "default" bucket with the default RPS and burst.
C23_LongestPrefixBucket ==
    ret.op = "take" =>
        LET b == buckets[ret.key]
        IN  IF MatchingPrefixes(ret.path) = {}
            THEN /\ ret.key = KeyDefault
                 /\ b.refillRate = Config.DefaultRPS
                 /\ b.maxTokens = Config.DefaultBurst * TicksPerSecond
            ELSE /\ ret.key = LongestPrefix(ret.path)
                 /\ \E l \in Config.PathLimits :
                        /\ l.prefix = ret.key
                        /\ b.refillRate = l.RPS
                        /\ b.maxTokens = l.Burst * TicksPerSecond

-----------------------------------------------------------------------------
(* Properties of RateLimiter.Wait (specification SpecWait) *)

\* the context of the call was cancelled before its timer fired
CancelledFirst(x) ==
    /\ x.ctxDone
    /\ x.cancelAt < x.start \/ ~Expired(x.start, x.wait, x.cancelAt)

\* C13 (as claimed): a Wait call that had to wait and whose context was
\* cancelled before the wait had elapsed returns the context's error.
C13_CancelledFirst ==
    \A w \in Waiters :
        (/\ waiter[w].pc = "returned" /\ waiter[w].wait > 0
         /\ CancelledFirst(waiter[w])) => waiter[w].out = "ctx"

\* the number of Wait calls on the bucket k that have returned nil
Admitted(k) ==
    LET RECURSIVE Sum(_)
        Sum(W) == IF W = {} THEN 0
                  ELSE LET w == CHOOSE x \in W : TRUE
                       IN  (IF k \in DOMAIN waiter[w].nils THEN waiter[w].nils[k] ELSE 0)
                           + Sum(W \ {w})
    IN  Sum(Waiters)

\* C31: every Wait call that has returned nil took exactly one token out of
\* its bucket, also when it had to wait; hence the number of calls admitted
\* on a bucket with burst B and rate R in the time T since the bucket was
\* created is at most B + R * T.
C31_AdmissionAccounting ==
    /\ \A w \in Waiters :
           (waiter[w].pc = "returned" /\ waiter[w].out = "nil") =>
               waiter[w].consumed = TicksPerSecond
    /\ \A k \in DOMAIN buckets :
           Admitted(k) * TicksPerSecond
               <= buckets[k].maxTokens + buckets[k].refillRate * (now - buckets[k].created)

\* C31, the bound alone
C31_AdmissionBound ==
    \A k \in DOMAIN buckets :
        Admitted(k) * TicksPerSecond
            <= buckets[k].maxTokens + buckets[k].refillRate * (now - buckets[k].created)

\* C32: the tokens a refresher returned for (refreshToken r, shop s) are
\* written into the client only if, at the moment of the write, the stored
\* refresh token is still r and the stored shopID is still s.
C32_RefreshInstallGuard ==
    [][\A c \in Callers :
         (pc[c] = "refreshing" /\ obs'[c].refreshed = obs[c].refreshed + 1) =>
             /\ refreshToken = refreshIn[c].refreshToken
             /\ shopID = refreshIn[c].shopID]_vars

\* the error of an attempt answered with a 4xx status other than 429 and
\* no platform error in the body
BareClientError(e) ==
    \E st \in 400..499 :
        /\ st # StatusTooManyRequests
        /\ e = NewAPIError(CodeServerError, MsgHTTPError(st), st)

\* C33: once an attempt was answered with an HTTP 4xx status other than 429
\* and no platform error in the body, the call is over and returns that
\* error: there is no backoff and no further attempt.
C33_BareClientErrorStops ==
    \A c \in Callers :
        (obs[c].opCalls >= 1 /\ N >= 1 /\ BareClientError(obs[c].lastOpErr)) =>
            /\ pc[c] = "done"
            /\ retErr[c] = obs[c].lastOpErr
            /\ result[c].Attempts = obs[c].opCalls

\* C34: for every retry policy, maxAttempts <= 0 included, a finished call
\* has invoked the operation at least once and reports Attempts equal to the
\* number of invocations; a call that returned nil has made an HTTP attempt,
\* and its last attempt succeeded.
C34_AtLeastOneAttempt ==
    \A c \in Callers :
        pc[c] = "done" =>
            /\ obs[c].opCalls >= 1
            /\ result[c].Attempts = obs[c].opCalls
            /\ retErr[c] = NilErr =>
                   (obs[c].httpCalls >= 1 /\ obs[c].lastOpErr = NilErr)

-----------------------------------------------------------------------------
(* Properties of the TokenManager (specification SpecTM) *)

\* C35: no Start or Stop call panics, and while the manager is running, its
\* context is not cancelled and no Stop is under way, the loop launched by
\* the last successful Start has not returned.
C35_RestartSafe ==
    /\ ~tm.panicked
    /\ (tm.running /\ ~tm.ctxDone /\ \A s \in Stoppers : tm.stopPc[s] = "idle") =>
           /\ tm.loops # <<>>
           /\ tm.loops[Len(tm.loops)] # "exited"

\* C35, the first part alone: no call panics
C35_NoPanic == ~tm.panicked

\* C35, the second part alone: the loop of the last successful Start lives
\* while the manager is running and no Stop is under way
C35_LoopLives ==
    (tm.running /\ ~tm.ctxDone /\ \A s \in Stoppers : tm.stopPc[s] = "idle") =>
        tm.loops[Len(tm.loops)] # "exited"

-----------------------------------------------------------------------------
(* Properties of the product-push job (specification SpecJob) *)

\* C36: a job that processProductPushJob marked processing has, once the
\* processing is over, exactly one terminal status; it is completed only if
\* at least one product was pushed successfully, and failed after a bad
\* payload, a failed decryption, an unknown platform, a failed catalog fetch
\* or zero successful pushes, an empty product list included.
C36_JobOutcome ==
    (job # <<>> /\ job.done /\ job.in.markProcessingOK) =>
        /\ job.marks = 1
        /\ job.status \in {"completed", "failed"}
        /\ job.status = "completed" =>
               \E i \in DOMAIN job.in.products : job.in.products[i] = "pushed"
        /\ (\/ ~job.in.payloadOK
            \/ job.in.decrypt = "fail"
            \/ job.in.platform \notin {"shopee", "tiktok"}
            \/ ~job.in.fetchOK
            \/ \A i \in DOMAIN job.in.products : job.in.products[i] # "pushed") =>
               job.status = "failed"

-----------------------------------------------------------------------------
(* Properties of the backoff delay (specification SpecDelay) *)

\* initialDelay * multiplier^(n-1), truncated to a whole duration
ExponentialDelay(p, n) ==
    (p.initialDelay * Pow(p.multiplier.num, n - 1)) \div Pow(p.multiplier.den, n - 1)

\* C24: with jitterFactor = 0, DelayForAttempt(n) is 0 for n <= 0 and
\* min(maxDelay, initialDelay * multiplier^(n-1)) for n >= 1; with
\* initialDelay = 1s, multiplier = 2, maxDelay = 30s the delays of attempts
\* 1..6 are 1, 2, 4, 8, 16, 30 s; and for a multiplier >= 1 the delay never
\* decreases with n and is never above maxDelay.
C24_BackoffGrowth ==
    (evaluated /\ delayOut # <<>> /\ policyIn.jitterFactor = 0) =>
        /\ \A n \in DOMAIN delayOut :
               delayOut[n] = IF n <= 0 THEN 0
                             ELSE Min(policyIn.maxDelay, ExponentialDelay(policyIn, n))
        /\ (/\ policyIn.initialDelay = 1000 /\ policyIn.maxDelay = 30000
            /\ policyIn.multiplier = [num |-> 2, den |-> 1]) =>
               [n \in 1..6 |-> delayOut[n]] = <<1000, 2000, 4000, 8000, 16000, 30000>>
        /\ policyIn.multiplier.num >= policyIn.multiplier.den =>
               \A n \in DOMAIN delayOut :
                   /\ delayOut[n] <= policyIn.maxDelay
                   /\ (n + 1) \in DOMAIN delayOut => delayOut[n] <= delayOut[n + 1]

\* C24 witness: the delays of the policy 1s / x2 / 30s without jitter, with
\* attempt 6 at the cap
C24_Witness ==
    /\ evaluated /\ delayOut # <<>>
    /\ policyIn.jitterFactor = 0 /\ policyIn.initialDelay = 1000
    /\ policyIn.maxDelay = 30000 /\ policyIn.multiplier = [num |-> 2, den |-> 1]
    /\ delayOut[5] = 16000 /\ delayOut[6] = 30000 /\ delayOut[0] = 0

\* the exponential delay with the jitter of draw u added, truncated
JitteredDelay(p, n, u) ==
    (p.initialDelay * Pow(p.multiplier.num, n - 1) * (100 + p.jitterFactor * u))
        \div (Pow(p.multiplier.den, n - 1) * 100)

\* C25 (as claimed): with jitterFactor > 0 the exponential delay is capped
\* at maxDelay first and the jitter delay * jitterFactor * u is added to the
\* capped value without another cap.
C25_JitterAfterCap ==
    (evaluated /\ delayOut # <<>> /\ policyIn.jitterFactor > 0) =>
        \A n \in DOMAIN delayOut :
            n >= 1 =>
                delayOut[n] =
                    IF policyIn.initialDelay * Pow(policyIn.multiplier.num, n - 1)
                           > policyIn.maxDelay * Pow(policyIn.multiplier.den, n - 1)
                    THEN (policyIn.maxDelay * (100 + policyIn.jitterFactor * drawIn))
                             \div 100
                    ELSE JitteredDelay(policyIn, n, drawIn)

\* C25 (amended): with jitterFactor > 0 the jitter delay * jitterFactor * u
\* is added to the exponential delay first and the sum is then capped at
\* maxDelay, so the returned delay is never above maxDelay.
C25_JitterBeforeCap ==
    (evaluated /\ delayOut # <<>> /\ policyIn.jitterFactor > 0) =>
        \A n \in DOMAIN delayOut :
            /\ delayOut[n] <= policyIn.maxDelay
            /\ n >= 1 =>
                   delayOut[n] = Min(policyIn.maxDelay,
                                     JitteredDelay(policyIn, n, drawIn))

\* C25 witness: jitter factor 0.1 and draw 0.9 on the policy 1s / x2 / 30s:
\* attempt 1 carries the jitter (1.09 s), attempt 6 (32 s before the cap,
\* 34.88 s with the jitter) is returned as exactly maxDelay
C25_Witness ==
    /\ evaluated /\ delayOut # <<>>
    /\ policyIn.jitterFactor = 1 /\ drawIn = 9
    /\ policyIn.initialDelay = 1000 /\ policyIn.maxDelay = 30000
    /\ policyIn.multiplier = [num |-> 2, den |-> 1]
    /\ delayOut[1] = 1090 /\ delayOut[6] = 30000

-----------------------------------------------------------------------------
(* Properties of the policy objects (specification SpecPolicy) *)

\* C26: a RetryPolicy is not changed once an Executor has been constructed
\* from it: the policy an executor holds always equals the policy it was
\* built with, and every With* call leaves the policy objects that exist,
\* the receiver among them, as they were, returning a different object.
C26_PolicyImmutable ==
    /\ [](executor # <<>> => policyHeap[executor.policy] = executor.built)
    /\ [][derived' # derived \/ policyHeap' # policyHeap =>
             /\ \A a \in DOMAIN policyHeap : policyHeap'[a] = policyHeap[a]
             /\ derived' \notin DOMAIN policyHeap]_vars

-----------------------------------------------------------------------------
(* Properties of the response classification (specification SpecResp) *)

\* the response carries an envelope whose error field names a platform error
PlatformError(r) == r.json /\ r.error # "" /\ r.error # "success"

\* C28: for a response that was received and read, the attempt returns a
\* platform APIError (code, message and request id of the envelope, status =
\* the HTTP status) whenever the envelope's error field is non-empty and not
\* "success", also on HTTP 200; without such an error and with a status >=
\* 400 it returns an APIError of code error_server (category server) with
\* that status; and it succeeds only when neither is the case.
C28_ResponseClassification ==
    (evaluated /\ respIn # <<>> /\ respIn.transport = "ok") =>
        /\ PlatformError(respIn) =>
               /\ errOut.kind = "api"
               /\ errOut.code = respIn.error
               /\ errOut.msg = respIn.message
               /\ errOut.reqid = respIn.request_id
               /\ errOut.status = respIn.status
        /\ (~PlatformError(respIn) /\ respIn.status >= 400) =>
               /\ errOut.kind = "api"
               /\ errOut.code = CodeServerError
               /\ Category(errOut) = CategoryServer
               /\ errOut.status = respIn.status
        /\ errOut = NilErr => (~PlatformError(respIn) /\ respIn.status < 400)

\* C28 witness: an HTTP 200 response whose envelope carries error_auth with
\* a request id has been classified as that platform error
C28_Witness ==
    /\ evaluated /\ respIn # <<>>
    /\ respIn.transport = "ok" /\ respIn.status = 200
    /\ respIn.json /\ respIn.error = CodeAuthError /\ respIn.request_id = "r1"
    /\ errOut = NewAPIErrorWithRequestID(CodeAuthError, MsgAccessTokenInvalid, 200, "r1")

-----------------------------------------------------------------------------
(* Properties of the signatures (specification SpecSig) *)

\* C29: VerifyWebhook(baseURL, body, s) is true when s is the signature
\* computed over baseURL + "|" + body with the same key; it is false when
\* the body differs from the signed body while key and base URL are those
\* of the signer, and false whenever the provided signature string differs
\* from the expected one.  The handler gives the same answer for a
\* signature that arrives alone under either header name, and false when
\* there is none.
C29_WebhookRoundTrip ==
    (evaluated /\ sigIn # <<>> /\ sigIn.op = "verify") =>
        LET own      == sigIn.signedKey = sigIn.key /\ sigIn.signedURL = sigIn.baseURL
            provided == ProvidedSignature(sigIn)
            expected == sign(sigIn.key, sigIn.baseURL \o <<"|">> \o sigIn.body)
        IN  /\ (own /\ sigIn.sent = "asis" /\ sigIn.signedBody = sigIn.body) =>
                   sigOut.signature
            /\ (own /\ sigIn.signedBody # sigIn.body) => ~sigOut.signature
            /\ provided # expected => ~sigOut.signature
            /\ sigIn.header \in {"Authorization", "authorization"} =>
                   sigOut.handler = sigOut.signature
            /\ sigIn.header = "none" => ~sigOut.handler

\* C29 witness: the signature of the body "|b" has been accepted for that
\* body, through the lower-case header too
C29_Witness ==
    /\ evaluated /\ sigIn # <<>> /\ sigIn.op = "verify"
    /\ sigIn.signedKey = sigIn.key /\ sigIn.signedURL = sigIn.baseURL
    /\ sigIn.sent = "asis" /\ sigIn.header = "authorization"
    /\ sigIn.signedBody = <<"|", "b">> /\ sigIn.body = <<"|", "b">>
    /\ sigOut.signature /\ sigOut.handler

\* C29 witness of the rejection: the signature of the body "b" has been
\* refused for the body "bb"
C29_WitnessTampered ==
    /\ evaluated /\ sigIn # <<>> /\ sigIn.op = "verify"
    /\ sigIn.signedKey = sigIn.key /\ sigIn.signedURL = sigIn.baseURL
    /\ sigIn.sent = "asis"
    /\ sigIn.signedBody = <<"b">> /\ sigIn.body = <<"b", "b">>
    /\ ~sigOut.signature

\* the fields in which two argument lists of GenerateAuthenticated differ
DifferingArgs(x, y) ==
    {f \in {"partnerID", "path", "timestamp", "token", "shop"} : x[f] # y[f]}

\* C30: GenerateAuthenticated called twice with the same arguments returns
\* the same string, and two calls with the same key whose arguments differ
\* in exactly one of partnerID, path, timestamp, accessToken and shopID sign
\* different canonical strings and return different strings.
C30_SignatureDeterminism ==
    (evaluated /\ sigIn # <<>> /\ sigIn.op = "generate") =>
        /\ sigOut.again = sigOut.a
        /\ sigIn.a = sigIn.b => sigOut.b = sigOut.a
        /\ (sigIn.a.key = sigIn.b.key
               /\ Cardinality(DifferingArgs(sigIn.a, sigIn.b)) = 1) =>
               /\ sigOut.a.data # sigOut.b.data
               /\ sigOut.a # sigOut.b

\* C30 witness: two calls that differ in the shop id alone (5 and 45) have
\* returned different strings
C30_Witness ==
    /\ evaluated /\ sigIn # <<>> /\ sigIn.op = "generate"
    /\ sigIn.a.key = sigIn.b.key
    /\ DifferingArgs(sigIn.a, sigIn.b) = {"shop"}
    /\ sigIn.a.shop = 5 /\ sigIn.b.shop = 45
    /\ sigOut.a.data = <<"1", "/", "x", "3", "a", "5">>
    /\ sigOut.a # sigOut.b /\ sigOut.again = sigOut.a

-----------------------------------------------------------------------------
(* Properties of the error taxonomy (specification SpecErr) *)

\* C7: IsRetryable() of an APIError is true exactly when its code is
\* error_exceed_limit or error_server (the rate_limit and server
\* categories) or its status is 429, 503 or >= 500, whatever the message.
C7_RetryabilityRule ==
    (evaluated /\ errIn.kind = "api") =>
        /\ retryableOut <=>
              \/ errIn.code \in {"error_exceed_limit", "error_server"}
              \/ errIn.status \in {429, 503}
              \/ errIn.status >= 500
        /\ retryableOut <=>
              \/ categoryOut \in {"rate_limit", "server"}
              \/ errIn.status \in {429, 503}
              \/ errIn.status >= 500

\* C7 witness: an error that is retryable by its status alone (429 on a
\* validation code)
C7_Witness ==
    /\ evaluated /\ errIn.kind = "api"
    /\ errIn.code = "error_param" /\ errIn.status = 429
    /\ errIn.msg = MsgAccessTokenInvalid
    /\ retryableOut

\* C8: ShouldRetry(err, attempt) is false when attempt >= maxAttempts or err
\* is nil; otherwise it is the retryable flag of err for an APIError and
\* false for any other error.
C8_ShouldRetry ==
    evaluated =>
        shouldRetryOut =
            (IF attemptIn >= policyIn.maxAttempts \/ errIn = NilErr THEN FALSE
             ELSE IF errIn.kind = "api" THEN retryableOut
             ELSE FALSE)

\* C8 witness: a transport error before the last attempt is not retried
C8_Witness ==
    /\ evaluated
    /\ errIn = PlainErr(TextRequestFailed)
    /\ attemptIn = 1 /\ policyIn.maxAttempts = 3
    /\ ~shouldRetryOut

=============================================================================
